---- MODULE Spec2Model ----
(***************************************************************************)
(* CoverageIQ: the asynchronous job orchestration core.                    *)
(*                                                                         *)
(*   backend/app/services/job_manager.py  JobManager (job record, the      *)
(*       background unit, the progress simulation, cancel_job)             *)
(*   backend/app/services/analysis.py     AnalysisPipeline (provider       *)
(*       selection, result validation, report persistence)                 *)
(*                                                                         *)
(* Spec and LiveSpec: one job record and its report.  start_background_task*)
(* is called up to MaxStarts times for the job id, a later call only after *)
(* the unit of the earlier one and its progress simulation have ended.     *)
(* A unit is an asyncio task: it runs from one await to the next           *)
(* atomically, and a cancellation requested while it is suspended is       *)
(* raised at the await it is suspended on.  A database operation (select   *)
(* and commit on one session) is one atomic step, and one that is          *)
(* cancelled has not been applied.  Time is abstracted to the order of     *)
(* events: a timestamp column records that it was set, and updated_at      *)
(* records which path stamped the row last.  Database and simulation       *)
(* failures are not modelled, and the report row always exists.            *)
(*                                                                         *)
(* ParseSpec: _parse_analysis_result applied to a payload drawn from a     *)
(* bounded set of JSON values.                                             *)
(***************************************************************************)
EXTENDS Integers, Sequences, FiniteSets, TLC

VARIABLES
    job,        \* the persisted AnalysisJob row (one job id)
    jobStale,   \* a pickup has seen utcnow() - job.created_at > 10 minutes
    report,     \* the persisted CoverageReport row of the job
    activeTask, \* job_id in _active_tasks
    callbacks,  \* done callbacks of ended tasks that have not run yet
    started,    \* number of start_background_task calls made so far
    unit,       \* the background unit: position, pending cancellation, exception in flight
    est,        \* the unit's progress simulation task
    hist,       \* what the current unit has done (observation only)
    raw,        \* the payload handed to _parse_analysis_result
    parsed,     \* what _parse_analysis_result produced for raw
    stored,     \* what save_analysis_results wrote to the report from parsed
    chunking,   \* one run of analyze_with_chunking: the split and the calls
    request     \* the arguments create_job was called with

vars == <<job, jobStale, report, activeTask, callbacks, started, unit, est, hist, raw, parsed, stored,
          chunking, request>>

jobVars == <<job, jobStale, report, activeTask, callbacks, started, unit, est, hist, request>>
parseVars == <<raw, parsed, stored>>
chunkVars == <<chunking>>

----------------------------------------------------------------------------
(* Bounds of the model *)

\* start_background_task calls for the one job id
MaxStarts == 2

\* the simulation aims at about 30 advancing updates (job_manager.py:421);
\* the model lets it reach the end value in about this many
UpdateSteps == 3

\* the simulation repeats the end value at most 30 times (job_manager.py:439);
\* the model stops it after this many
MaxEndUpdates == 2

\* keys of a subscores object whose values are drawn from every kind of value
MaxKeys == 2

----------------------------------------------------------------------------
(* Program constants *)

ProgressStarting == 5
ProgressScriptProcessed == 10
SimulationStart == 15
SimulationEnd == 85
ProgressProcessingResults == 90
ProgressComplete == 100

Min(a, b) == IF a < b THEN a ELSE b
Max(a, b) == IF a > b THEN a ELSE b

QUEUED == "queued"
PROCESSING == "processing"
COMPLETED == "completed"
FAILED == "failed"
Terminal == {COMPLETED, FAILED}

None == "None"

\* no payload handed over yet, nothing produced yet
NoPayload == [t |-> "none"]
NotParsed == [t |-> "none"]
NotStored == [t |-> "none"]
NoChunking == [pc |-> "none"]
NoRequest == [t |-> "none"]

MODEL_KIMI == "moonshot-v1-128k"
MODEL_CLAUDE_SONNET == "claude-sonnet-4-5"
ReportDefaultModel == "kimi-k2.5"

----------------------------------------------------------------------------
(* Error messages: a message is a sequence of text fragments, str(e) of an  *)
(* exception that embeds another is the concatenation.                     *)

MsgCancelled == <<"Job was cancelled">>
MsgStale == <<"Job exceeded maximum age">>
MsgTimedOut == <<"Analysis timed out after 5 minutes. The LLM service may be experiencing issues.">>

PrimaryErrors == {"moderation", "rate_limit", "auth", "bad_request", "parse", "timeout", "exception"}
PrimaryOutcomes == {"ok"} \cup PrimaryErrors
FallbackErrors == {"rate_limit", "auth", "timeout"}
FallbackOutcomes == {"ok"} \cup FallbackErrors

\* the exception class MoonshotClient raises for an outcome
PrimaryErrorClass(out) ==
    CASE out = "moderation" -> "LLMContentModerationError"
      [] out = "rate_limit" -> "LLMRateLimitError"
      [] out = "exception" -> "KeyError"
      [] OTHER -> "LLMError"

PrimaryErrorMsg(out) ==
    CASE out = "moderation" -> <<"Content rejected by moderation: high risk">>
      [] out = "rate_limit" -> <<"Rate limit exceeded. Please try again.">>
      [] out = "auth" -> <<"Invalid API key">>
      [] out = "bad_request" -> <<"API error (400): Unknown error">>
      [] out = "parse" -> <<"Failed to parse JSON response">>
      [] out = "timeout" -> <<"Request timeout">>
      [] OTHER -> <<"'choices'">>

FallbackErrorClass(out) ==
    IF out = "rate_limit" THEN "LLMRateLimitError" ELSE "LLMError"

FallbackErrorMsg(out) ==
    CASE out = "rate_limit" -> <<"Anthropic rate limit exceeded">>
      [] out = "auth" -> <<"Invalid Anthropic API key">>
      [] OTHER -> <<"Claude request timed out">>

\* class hierarchy of llm_client.py: subclasses of LLMError
IsLLMError(class) == class \in {"LLMError", "LLMRateLimitError", "LLMContentModerationError"}

NoExc == [class |-> None, msg |-> <<>>]
Exc(class, msg) == [class |-> class, msg |-> msg]

----------------------------------------------------------------------------
(* The job store: JobManager's read-modify-write operations on the row.    *)

\* a variant without the lower limit
ClampAtTopOnly(progress) == Min(100, progress)

\* min(100, max(0, progress))
Clamp(progress) == Min(100, Max(0, progress))

\* a variant that leaves the status alone
DoUpdateProgressKeepingStatus(j, progress, status, by) ==
    IF j.exists
    THEN [j EXCEPT !.progress = Clamp(progress), !.updatedAt = by]
    ELSE j

\* _do_update_progress: no row, no write
\* (by: the path that writes, "unit" or "simulation", stamped in updated_at)
DoUpdateProgress(j, progress, status, by) ==
    IF j.exists
    THEN [j EXCEPT !.progress = Clamp(progress),
                   !.status = IF status # None THEN status ELSE @,
                   !.updatedAt = by]
    ELSE j

DoMarkCompleted(j, by) ==
    IF j.exists
    THEN [j EXCEPT !.status = COMPLETED,
                   !.progress = ProgressComplete,
                   !.completedAt = TRUE,
                   !.updatedAt = by]
    ELSE j

DoMarkFailed(j, msg, by) ==
    IF j.exists
    THEN [j EXCEPT !.status = FAILED,
                   !.error = msg,
                   !.completedAt = TRUE,
                   !.updatedAt = by]
    ELSE j

\* create_job: a Queued row with progress 0
NewJob ==
    [exists |-> TRUE, status |-> QUEUED, progress |-> 0, error |-> <<>>,
     completedAt |-> FALSE, updatedAt |-> "create"]

\* no row with this job id
NoJob ==
    [exists |-> FALSE, status |-> None, progress |-> 0, error |-> <<>>,
     completedAt |-> FALSE, updatedAt |-> None]

----------------------------------------------------------------------------
(* The report store: AnalysisPipeline's writes to the CoverageReport row.  *)

NewReport ==
    [status |-> PROCESSING, error |-> <<>>, model_used |-> ReportDefaultModel,
     result |-> None, completedAt |-> FALSE]

\* save_analysis_results: the report takes the results (result stands for the
\* stored logline, scores, ...: the provider whose payload they come from),
\* becomes Completed and records the model
SaveAnalysisResultsKeepingModel(r, results, model_used) ==
    [r EXCEPT !.status = COMPLETED, !.result = results, !.completedAt = TRUE]

SaveAnalysisResults(r, results, model_used) ==
    [r EXCEPT !.status = COMPLETED, !.result = results, !.model_used = model_used,
              !.completedAt = TRUE]

\* AnalysisPipeline.mark_failed
ReportMarkFailed(r, msg) ==
    [r EXCEPT !.status = FAILED, !.error = msg, !.completedAt = TRUE]

----------------------------------------------------------------------------
(* AnalysisPipeline.analyze_script: what follows a provider call.          *)
(* The result is what analyze_script does next: return the parsed result   *)
(* tagged with a model, call the Fallback, or raise.                       *)

MsgParseFailed == <<"Failed to parse analysis result: ", "invalid literal for int()">>

Return(model) == [act |-> "return", model |-> model, exc |-> NoExc]
CallFallback == [act |-> "fallback", model |-> None, exc |-> NoExc]
Raise(class, msg) == [act |-> "raise", model |-> None, exc |-> Exc(class, msg)]

\* _parse_analysis_result on the raw result, then the tagged return
ParseAndReturn(model, good) ==
    IF good THEN Return(model) ELSE Raise("AnalysisError", MsgParseFailed)

\* a variant that turns to the Fallback on any LLMError of the Primary
AfterPrimaryAnyLLMErrorFallsBack(out, good) ==
    IF out = "ok" THEN ParseAndReturn(MODEL_KIMI, good)
    ELSE IF IsLLMError(PrimaryErrorClass(out)) THEN CallFallback
    ELSE Raise("AnalysisError", <<"Analysis pipeline failed: ">> \o PrimaryErrorMsg(out))

\* the handlers around the Moonshot call
AfterPrimary(out, good) ==
    IF out = "ok" THEN ParseAndReturn(MODEL_KIMI, good)
    ELSE IF PrimaryErrorClass(out) = "LLMContentModerationError" THEN CallFallback
    ELSE IF IsLLMError(PrimaryErrorClass(out))
         THEN Raise("AnalysisError", <<"Moonshot analysis failed: ">> \o PrimaryErrorMsg(out))
    ELSE Raise("AnalysisError", <<"Analysis pipeline failed: ">> \o PrimaryErrorMsg(out))

\* a variant that tags the Fallback's result with the Primary's model
AfterFallbackTaggedPrimary(out, good) ==
    IF out = "ok" THEN ParseAndReturn(MODEL_KIMI, good)
    ELSE Raise("AnalysisError",
               <<"Both Moonshot and Claude failed. Claude error: ">> \o FallbackErrorMsg(out))

\* the handlers around the Claude call made after a moderation rejection
AfterFallback(out, good) ==
    IF out = "ok" THEN ParseAndReturn(MODEL_CLAUDE_SONNET, good)
    ELSE IF IsLLMError(FallbackErrorClass(out))
         THEN Raise("AnalysisError",
                    <<"Both Moonshot and Claude failed. Claude error: ">> \o FallbackErrorMsg(out))
    ELSE Raise("AnalysisError", <<"Analysis pipeline failed: ">> \o FallbackErrorMsg(out))

\* run_coverage_analysis: any exception becomes an AnalysisError that embeds it
CoverageFailed(e) == Exc("AnalysisError", <<"Coverage analysis failed: ">> \o e.msg)

\* _run_analysis_job: the message stored for an exception of the analysis
JobErrorMsg(e) ==
    IF e.class = "AnalysisError"
    THEN <<"Analysis failed: ">> \o e.msg
    ELSE <<"Unexpected error: ", e.class, ": ">> \o e.msg

----------------------------------------------------------------------------
(* The background unit (_run_analysis_job) and its progress simulation.    *)

\* positions of the unit: the await it is suspended on
InsideWaitFor == {"primary", "fallback", "save", "refresh", "report_failed"}
AwaitingEstimator == {"await_est_ok", "await_est_timeout", "await_est_error"}

NewUnit == [pc |-> "idle", cancel |-> FALSE, exc |-> NoExc, model |-> None, result |-> None]
NoEst == [pc |-> "none", current |-> 0, endCount |-> 0, cancel |-> FALSE]
NewHist ==
    [calls |-> <<>>, pOut |-> None, fOut |-> None, good |-> TRUE, raised |-> None,
     startStatus |-> None, pickup |-> None, aged |-> FALSE, cancelled |-> FALSE, timedOut |-> FALSE,
     returned |-> None, mark |-> None, cancelReturned |-> None,
     failure |-> NoExc, marking |-> None]

EstFinished(e) == e.pc \in {"none", "done", "cancelled", "failed"}

\* progress_task.cancel(): a request, unless the task is already done
CancelEstimator(e) == IF e.pc \in {"running", "ending"} THEN [e EXCEPT !.cancel = TRUE] ELSE e

\* the task ends: its done callback is scheduled
Finish ==
    /\ unit' = [unit EXCEPT !.pc = "finished", !.cancel = FALSE]
    /\ callbacks' = callbacks + 1
    /\ UNCHANGED activeTask

Init ==
    /\ job \in {NewJob, NoJob}
    /\ jobStale = FALSE
    /\ report = NewReport
    /\ activeTask = FALSE
    /\ callbacks = 0
    /\ started = 0
    /\ unit = NewUnit
    /\ est = NoEst
    /\ hist = NewHist
    /\ raw = NoPayload
    /\ parsed = NotParsed
    /\ stored = NotStored
    /\ chunking = NoChunking
    /\ request = NoRequest

\* start_background_task: create the task and register it under the job id
StartBackgroundTask ==
    /\ started < MaxStarts
    /\ unit.pc \in {"idle", "finished"}
    /\ EstFinished(est)
    /\ started' = started + 1
    /\ activeTask' = TRUE
    /\ UNCHANGED callbacks
    /\ unit' = [NewUnit EXCEPT !.pc = "created"]
    /\ est' = NoEst
    /\ hist' = [NewHist EXCEPT !.startStatus = job.status]
    /\ UNCHANGED <<job, jobStale, report, parseVars, chunkVars, request>>

\* cancel_job's return value: a task is registered under the job id and
\* it is not done ("if task and not task.done()")
CancelReturnsForAnyRegistered(active, un) == active

CancelReturns(active, un) == active /\ un.pc # "finished"

\* cancel_job: task.cancel() on the registered task when it is not done,
\* return True; otherwise return False
CancelJob ==
    LET ret == CancelReturns(activeTask, unit)
    IN  /\ unit' = IF ret THEN [unit EXCEPT !.cancel = TRUE] ELSE unit
        /\ hist' = [hist EXCEPT !.cancelReturned = IF ret THEN "True" ELSE "False"]
        /\ UNCHANGED <<job, jobStale, report, activeTask, callbacks, started, est,
                       parseVars, chunkVars, request>>

\* the task's first step: open the session, issue the select
BeginUnit ==
    /\ unit.pc = "created"
    /\ ~unit.cancel
    /\ unit' = [unit EXCEPT !.pc = "load"]
    /\ UNCHANGED <<job, jobStale, report, activeTask, callbacks, started, est, hist, parseVars, chunkVars, request>>

\* a variant that never looks at the age of the row
PickupIgnoringAge(j, aged) ==
    IF ~j.exists THEN "absent"
    ELSE IF j.status \in Terminal THEN "terminal"
    ELSE "run"

\* what _run_analysis_job decides once the select has returned the row:
\* not found, too old (aged: utcnow() - created_at > 10 minutes), already
\* terminal, or go on; the age is looked at before the status
Pickup(j, aged) ==
    IF ~j.exists THEN "absent"
    ELSE IF aged THEN "stale"
    ELSE IF j.status \in Terminal THEN "terminal"
    ELSE "run"

\* the select returns (a row that was too old once stays too old)
LoadJob(aged) ==
    /\ unit.pc = "load"
    /\ ~unit.cancel
    /\ jobStale => aged
    /\ LET p == Pickup(job, aged)
       IN  /\ hist' = [hist EXCEPT !.pickup = p, !.aged = job.exists /\ aged]
           /\ IF p \in {"absent", "terminal"}
              THEN Finish
              ELSE /\ unit' = [unit EXCEPT !.pc = IF p = "stale" THEN "mark_stale"
                                                  ELSE "set_processing"]
                   /\ UNCHANGED <<activeTask, callbacks>>
    /\ jobStale' = (jobStale \/ (job.exists /\ aged))
    /\ UNCHANGED <<job, report, started, est, parseVars, chunkVars, request>>

\* mark_failed(job_id, "Job exceeded maximum age ..."), then return
MarkStale ==
    /\ unit.pc = "mark_stale"
    /\ ~unit.cancel
    /\ job' = DoMarkFailed(job, MsgStale, "unit")
    /\ Finish
    /\ hist' = [hist EXCEPT !.mark = "stale"]
    /\ UNCHANGED <<jobStale, report, started, est, parseVars, chunkVars, request>>

\* update_progress(job_id, 5, JobStatus.PROCESSING)
SetProcessing ==
    /\ unit.pc = "set_processing"
    /\ ~unit.cancel
    /\ job' = DoUpdateProgress(job, ProgressStarting, PROCESSING, "unit")
    /\ unit' = [unit EXCEPT !.pc = "start_analysis"]
    /\ UNCHANGED <<jobStale, report, activeTask, callbacks, started, est, hist, parseVars, chunkVars, request>>

\* a variant without the floor of 1
SimulationIncrementUnfloored(start, end) == (end - start) \div UpdateSteps

\* _simulate_progress_updates: increment = max(1, total_range // 30)
SimulationIncrement(start, end) == Max(1, (end - start) \div UpdateSteps)

\* a variant that does not stop at the end value
SimulationNextUncapped(current, start, end) == current + SimulationIncrement(start, end)

\* current = min(end, current + increment)
SimulationNext(current, start, end) == Min(end, current + SimulationIncrement(start, end))

\* _run_analysis_with_progress up to the provider call: update_progress(10),
\* create the simulation task, enter wait_for(run_coverage_analysis) and
\* analyze_script, which calls Moonshot first
StartAnalysis ==
    /\ unit.pc = "start_analysis"
    /\ ~unit.cancel
    /\ job' = DoUpdateProgress(job, ProgressScriptProcessed, None, "unit")
    /\ est' = [pc |-> "running", current |-> SimulationStart, endCount |-> 0, cancel |-> FALSE]
    /\ unit' = [unit EXCEPT !.pc = "primary"]
    /\ hist' = [hist EXCEPT !.calls = Append(@, "primary")]
    /\ UNCHANGED <<jobStale, report, activeTask, callbacks, started, parseVars, chunkVars, request>>

\* what analyze_script does after a provider call that ended with out:
\* r is AfterPrimary or AfterFallback of it
Continue(r, producer, out, good) ==
    /\ unit' = CASE r.act = "return" ->
                      [unit EXCEPT !.pc = "save", !.model = r.model, !.result = producer]
                 [] r.act = "fallback" -> [unit EXCEPT !.pc = "fallback"]
                 [] OTHER -> [unit EXCEPT !.pc = "report_failed", !.exc = r.exc]
    /\ hist' = [hist EXCEPT
                  !.pOut = IF producer = "primary" THEN out ELSE @,
                  !.fOut = IF producer = "fallback" THEN out ELSE @,
                  !.good = good,
                  !.calls = IF r.act = "fallback" THEN Append(@, "fallback") ELSE @,
                  !.returned = IF r.act = "return" THEN r.model ELSE @,
                  !.raised = IF r.act = "raise" THEN r.exc.class ELSE @]

\* the Moonshot call ends
PrimaryReturns(out, good) ==
    /\ unit.pc = "primary"
    /\ ~unit.cancel
    /\ good \/ out = "ok"
    /\ Continue(AfterPrimary(out, good), "primary", out, good)
    /\ UNCHANGED <<job, jobStale, report, activeTask, callbacks, started, est, parseVars, chunkVars, request>>

\* the Claude call ends
FallbackReturns(out, good) ==
    /\ unit.pc = "fallback"
    /\ ~unit.cancel
    /\ good \/ out = "ok"
    /\ Continue(AfterFallback(out, good), "fallback", out, good)
    /\ UNCHANGED <<job, jobStale, report, activeTask, callbacks, started, est, parseVars, chunkVars, request>>

\* run_coverage_analysis: save_analysis_results commits the report
SaveResults ==
    /\ unit.pc = "save"
    /\ ~unit.cancel
    /\ report' = SaveAnalysisResults(report, unit.result, unit.model)
    /\ unit' = [unit EXCEPT !.pc = "refresh"]
    /\ UNCHANGED <<job, jobStale, activeTask, callbacks, started, est, hist, parseVars, chunkVars, request>>

\* db.refresh(report) returns, wait_for returns: progress_task.cancel()
RefreshReport ==
    /\ unit.pc = "refresh"
    /\ ~unit.cancel
    /\ est' = CancelEstimator(est)
    /\ unit' = [unit EXCEPT !.pc = "await_est_ok"]
    /\ UNCHANGED <<job, jobStale, report, activeTask, callbacks, started, hist, parseVars, chunkVars, request>>

\* how an awaited database operation ends
DbOutcomes == {"ok", "error"}

\* the exception of a session on which commit and rollback both fail
RollbackError == Exc("OperationalError", <<"connection was closed">>)

\* what run_coverage_analysis raises for the failure e once the marking
\* (select, commit) ended with marking and, after a failed one, db.rollback()
\* with rollback: mark_failed's handler passes over the failed marking, but
\* its own rollback is awaited inside the handler, and what that raises
\* leaves mark_failed and run_coverage_analysis's handler
RaisedAfterMarking(e, marking, rollback) ==
    IF marking = "ok" \/ rollback = "ok" THEN CoverageFailed(e) ELSE RollbackError

\* run_coverage_analysis's handler: pipeline.mark_failed(report_id, str(e)),
\* raise AnalysisError; _run_analysis_with_progress: progress_task.cancel()
ReportFailed ==
    /\ unit.pc = "report_failed"
    /\ ~unit.cancel
    /\ report' = ReportMarkFailed(report, unit.exc.msg)
    /\ est' = CancelEstimator(est)
    /\ unit' = [unit EXCEPT !.pc = "await_est_error",
                            !.exc = RaisedAfterMarking(@, "ok", "ok")]
    /\ hist' = [hist EXCEPT !.failure = unit.exc, !.marking = "ok"]
    /\ UNCHANGED <<job, jobStale, activeTask, callbacks, started, parseVars, chunkVars, request>>

\* wait_for's 300 s deadline passes: the analysis is interrupted,
\* asyncio.TimeoutError is raised and its handler cancels the simulation
Timeout ==
    /\ unit.pc \in InsideWaitFor
    /\ ~unit.cancel
    /\ est' = CancelEstimator(est)
    /\ unit' = [unit EXCEPT !.pc = "await_est_timeout"]
    /\ hist' = [hist EXCEPT !.timedOut = TRUE]
    /\ UNCHANGED <<job, jobStale, report, activeTask, callbacks, started, parseVars, chunkVars, request>>

\* the unit after "await progress_task" (a CancelledError there is passed over)
AfterEstimator(un) ==
    CASE un.pc = "await_est_ok" -> [un EXCEPT !.pc = "processing_results", !.cancel = FALSE]
      [] un.pc = "await_est_timeout" ->
            [un EXCEPT !.pc = "mark_failed", !.cancel = FALSE,
                       !.exc = Exc("AnalysisError", MsgTimedOut)]
      [] OTHER -> [un EXCEPT !.pc = "mark_failed", !.cancel = FALSE]

\* the exception of a simulation write that failed
EstimatorError == Exc("OperationalError", <<"database is locked">>)

\* "await progress_task" on a task that has ended: a task that ended with an
\* exception hands it to the one who awaits it. After the analysis returned
\* this is inside the try block, so "except Exception" awaits the task once
\* more and the exception leaves from there; in the two handlers it leaves
\* at once. It reaches "except Exception" of _run_analysis_job.
AwaitProgressTask(un, e) ==
    IF e.pc = "failed"
    THEN [un EXCEPT !.pc = "mark_failed", !.cancel = FALSE, !.exc = EstimatorError]
    ELSE AfterEstimator(un)

\* the simulation task has ended: "await progress_task" returns
AwaitEstimator ==
    /\ unit.pc \in AwaitingEstimator
    /\ ~unit.cancel
    /\ EstFinished(est)
    /\ unit' = AwaitProgressTask(unit, est)
    /\ UNCHANGED <<job, jobStale, report, activeTask, callbacks, started, est, hist, parseVars, chunkVars, request>>

\* update_progress(job_id, 90), the 0.1 s pause, return to _run_analysis_job
ProcessingResults ==
    /\ unit.pc = "processing_results"
    /\ ~unit.cancel
    /\ job' = DoUpdateProgress(job, ProgressProcessingResults, None, "unit")
    /\ unit' = [unit EXCEPT !.pc = "mark_completed"]
    /\ UNCHANGED <<jobStale, report, activeTask, callbacks, started, est, hist, parseVars, chunkVars, request>>

\* mark_completed(job_id), the unit ends
MarkCompleted ==
    /\ unit.pc = "mark_completed"
    /\ ~unit.cancel
    /\ job' = DoMarkCompleted(job, "unit")
    /\ Finish
    /\ hist' = [hist EXCEPT !.mark = "completed"]
    /\ UNCHANGED <<jobStale, report, started, est, parseVars, chunkVars, request>>

\* the AnalysisError / Exception handlers: mark_failed(job_id, error_msg)
MarkFailed ==
    /\ unit.pc = "mark_failed"
    /\ ~unit.cancel
    /\ job' = DoMarkFailed(job, JobErrorMsg(unit.exc), "unit")
    /\ Finish
    /\ hist' = [hist EXCEPT !.mark = "failed"]
    /\ UNCHANGED <<jobStale, report, started, est, parseVars, chunkVars, request>>

\* where a CancelledError raised at position pc takes the unit:
\*  - a task cancelled before its first step never runs its body;
\*  - around "await progress_task" it is caught and passed over;
\*  - inside an except handler of _run_analysis_job it leaves the task;
\*  - anywhere else in the try block it reaches "except CancelledError"
\*    (not "except Exception" of _run_analysis_with_progress, so the
\*    simulation task is not cancelled).
OnCancelledError(un) ==
    IF un.pc \in {"created", "mark_failed", "on_cancel"}
    THEN [un EXCEPT !.pc = "finished", !.cancel = FALSE]
    ELSE IF un.pc \in AwaitingEstimator
    THEN AfterEstimator(un)
    ELSE [un EXCEPT !.pc = "on_cancel", !.cancel = FALSE]

\* the cancellation requested by cancel_job is raised in the unit
DeliverCancel ==
    /\ unit.cancel
    /\ unit.pc \notin {"idle", "finished"}
    /\ unit' = OnCancelledError(unit)
    /\ callbacks' = IF unit'.pc = "finished" THEN callbacks + 1 ELSE callbacks
    /\ UNCHANGED activeTask
    /\ hist' = [hist EXCEPT !.cancelled = TRUE]
    /\ UNCHANGED <<job, jobStale, report, started, est, parseVars, chunkVars, request>>

\* except CancelledError: mark_failed(job_id, "Job was cancelled"), re-raise
MarkCancelled ==
    /\ unit.pc = "on_cancel"
    /\ ~unit.cancel
    /\ job' = DoMarkFailed(job, MsgCancelled, "unit")
    /\ Finish
    /\ hist' = [hist EXCEPT !.mark = "cancelled"]
    /\ UNCHANGED <<jobStale, report, started, est, parseVars, chunkVars, request>>

----------------------------------------------------------------------------
(* _simulate_progress_updates: the progress simulation task of the unit.   *)

\* first loop: sleep(interval), advance, _do_update_progress on an own session
EstAdvance ==
    /\ est.pc = "running"
    /\ ~est.cancel
    /\ est.current < SimulationEnd
    /\ LET next == SimulationNext(est.current, SimulationStart, SimulationEnd)
       IN  /\ job' = DoUpdateProgress(job, next, None, "simulation")
           /\ est' = [est EXCEPT !.current = next,
                                 !.pc = IF next < SimulationEnd THEN "running" ELSE "ending"]
    /\ UNCHANGED <<jobStale, report, activeTask, callbacks, started, unit, hist, parseVars, chunkVars, request>>

\* second loop: sleep(interval * 2), write the end value again
EstTouch ==
    /\ est.pc = "ending"
    /\ ~est.cancel
    /\ est.endCount < MaxEndUpdates
    /\ job' = DoUpdateProgress(job, SimulationEnd, None, "simulation")
    /\ est' = [est EXCEPT !.endCount = @ + 1]
    /\ UNCHANGED <<jobStale, report, activeTask, callbacks, started, unit, hist, parseVars, chunkVars, request>>

\* the loops end: max_end_updates reached, or elapsed > max_duration
EstStop ==
    /\ est.pc \in {"running", "ending"}
    /\ ~est.cancel
    /\ est' = [est EXCEPT !.pc = "done"]
    /\ UNCHANGED <<job, jobStale, report, activeTask, callbacks, started, unit, hist, parseVars, chunkVars, request>>

\* CancelledError in the simulation task: re-raised, the task ends cancelled
EstCancelled ==
    /\ est.cancel
    /\ est.pc \in {"running", "ending"}
    /\ est' = [est EXCEPT !.pc = "cancelled", !.cancel = FALSE]
    /\ UNCHANGED <<job, jobStale, report, activeTask, callbacks, started, unit, hist, parseVars, chunkVars, request>>

\* a done callback runs: _active_tasks.pop(job_id, None) removes whatever
\* task is registered under the job id
DoneCallback ==
    /\ callbacks > 0
    /\ callbacks' = callbacks - 1
    /\ activeTask' = FALSE
    /\ UNCHANGED <<job, jobStale, report, started, unit, est, hist, parseVars, chunkVars, request>>

----------------------------------------------------------------------------

UnitStep ==
    \/ BeginUnit
    \/ \E aged \in BOOLEAN : LoadJob(aged)
    \/ MarkStale
    \/ SetProcessing
    \/ StartAnalysis
    \/ SaveResults
    \/ RefreshReport
    \/ ReportFailed
    \/ Timeout
    \/ AwaitEstimator
    \/ ProcessingResults
    \/ MarkCompleted
    \/ MarkFailed
    \/ DeliverCancel
    \/ MarkCancelled

EstStep ==
    \/ EstAdvance
    \/ EstTouch
    \/ EstStop
    \/ EstCancelled

ProviderStep ==
    \/ \E out \in PrimaryOutcomes, good \in BOOLEAN : PrimaryReturns(out, good)
    \/ \E out \in FallbackOutcomes, good \in BOOLEAN : FallbackReturns(out, good)

Next ==
    \/ StartBackgroundTask
    \/ CancelJob
    \/ UnitStep
    \/ DoneCallback
    \/ EstStep
    \/ ProviderStep

Spec == Init /\ [][Next]_vars

\* the event loop runs every task that can run, a database operation returns,
\* and the wait_for deadline fires; a provider need not answer, and nobody
\* has to call start_background_task or cancel_job
LiveSpec ==
    Init /\ [][Next]_vars /\ WF_vars(UnitStep) /\ WF_vars(EstStep) /\ WF_vars(DoneCallback)

----------------------------------------------------------------------------
(* _simulate_progress_updates(job_id, start, end) by itself, never          *)
(* cancelled, statement by statement and with its clock. Time is counted in *)
(* units of interval; est holds the locals of the coroutine.                *)

\* longest max_duration tried, and the longest time a write takes
MaxDuration == 12
MaxWriteDelay == 1

SimRanges == {<<15, 85>>} \cup ((0..5) \X (0..5))
SimDurations == {1, 4, MaxDuration}

\* a database session: the one _run_analysis_job opens for the job path
\* (JobSession), or the n-th one opened by the simulation
NoSession == [owner |-> None, n |-> 0]
JobSession == [owner |-> "job", n |-> 0]
SimulationSession(n) == [owner |-> "simulation", n |-> n]

NewSimulation(start, end, max_duration) ==
    [pc |-> "first_loop", start |-> start, end |-> end, max_duration |-> max_duration,
     current |-> start, end_update_count |-> 0, elapsed |-> 0,
     advances |-> 0, expired |-> FALSE, writesAtExpiry |-> 0,
     session |-> NoSession, opened |-> 0, cancel |-> FALSE]

\* a variant that writes on the session of the job path
EstimatorSessionShared(db, opened) == db

\* the session a simulation write runs on:
\* "async with AsyncSessionLocal() as session" opens one more
EstimatorSession(db, opened) == SimulationSession(opened + 1)

SimInit ==
    /\ job = DoUpdateProgress(DoUpdateProgress(NewJob, ProgressStarting, PROCESSING, "unit"),
                              ProgressScriptProcessed, None, "unit")
    /\ \E r \in SimRanges, max_duration \in SimDurations :
           est = NewSimulation(r[1], r[2], max_duration)
    /\ jobStale = FALSE
    /\ report = NewReport
    /\ activeTask = FALSE
    /\ callbacks = 0
    /\ started = 0
    /\ unit = NewUnit
    /\ hist = NewHist
    /\ raw = NoPayload
    /\ parsed = NotParsed
    /\ stored = NotStored
    /\ chunking = NoChunking
    /\ request = NoRequest

\* elapsed > max_duration, as the loops test it
Expired(e) == e.elapsed > e.max_duration

\* "while current < end:" and the test of the elapsed time under it
FirstLoopCheck ==
    /\ est.pc = "first_loop"
    /\ est' = IF est.current < est.end
              THEN IF Expired(est)
                   THEN [est EXCEPT !.pc = "second_loop", !.expired = TRUE,
                                    !.writesAtExpiry = est.advances + est.end_update_count]
                   ELSE [est EXCEPT !.pc = "sleep"]
              ELSE [est EXCEPT !.pc = "second_loop"]
    /\ UNCHANGED <<job, jobStale, report, activeTask, callbacks, started, unit, hist,
                   parseVars, chunkVars, request>>

\* sleep(interval) is over: current = min(end, current + increment), a session
\* is opened and _do_update_progress is awaited on it
AdvanceBegin ==
    /\ est.pc = "sleep"
    /\ ~est.cancel
    /\ est' = [est EXCEPT !.pc = "writing",
                          !.current = SimulationNext(est.current, est.start, est.end),
                          !.session = EstimatorSession(JobSession, est.opened),
                          !.opened = @ + 1]
    /\ UNCHANGED <<job, jobStale, report, activeTask, callbacks, started, unit, hist,
                   parseVars, chunkVars, request>>

\* the write (taking delay) has returned and "async with" has closed the session
AdvanceWrite(delay) ==
    /\ est.pc = "writing"
    /\ ~est.cancel
    /\ job' = DoUpdateProgress(job, est.current, None, "simulation")
    /\ est' = [est EXCEPT !.pc = "first_loop", !.session = NoSession,
                          !.advances = @ + 1, !.elapsed = @ + 1 + delay]
    /\ UNCHANGED <<jobStale, report, activeTask, callbacks, started, unit, hist,
                   parseVars, chunkVars, request>>

\* "while end_update_count < max_end_updates:" and the test under it
SecondLoopCheck ==
    /\ est.pc = "second_loop"
    /\ est' = IF est.end_update_count < MaxEndUpdates
              THEN IF Expired(est)
                   THEN [est EXCEPT !.pc = "done", !.expired = TRUE,
                                    !.writesAtExpiry = est.advances + est.end_update_count]
                   ELSE [est EXCEPT !.pc = "end_sleep"]
              ELSE [est EXCEPT !.pc = "done"]
    /\ UNCHANGED <<job, jobStale, report, activeTask, callbacks, started, unit, hist,
                   parseVars, chunkVars, request>>

\* sleep(interval * 2) is over: a session is opened for the write of the end value
EndBegin ==
    /\ est.pc = "end_sleep"
    /\ ~est.cancel
    /\ est' = [est EXCEPT !.pc = "end_writing",
                          !.session = EstimatorSession(JobSession, est.opened),
                          !.opened = @ + 1]
    /\ UNCHANGED <<job, jobStale, report, activeTask, callbacks, started, unit, hist,
                   parseVars, chunkVars, request>>

\* the write has returned, the session is closed, end_update_count += 1
EndWrite(delay) ==
    /\ est.pc = "end_writing"
    /\ ~est.cancel
    /\ job' = DoUpdateProgress(job, est.end, None, "simulation")
    /\ est' = [est EXCEPT !.pc = "second_loop", !.session = NoSession,
                          !.end_update_count = @ + 1, !.elapsed = @ + 2 + delay]
    /\ UNCHANGED <<jobStale, report, activeTask, callbacks, started, unit, hist,
                   parseVars, chunkVars, request>>

SimNext ==
    \/ FirstLoopCheck
    \/ AdvanceBegin
    \/ \E delay \in 0..MaxWriteDelay : AdvanceWrite(delay)
    \/ SecondLoopCheck
    \/ EndBegin
    \/ \E delay \in 0..MaxWriteDelay : EndWrite(delay)

\* the event loop resumes the coroutine whenever its sleep or write is over
SimSpec == SimInit /\ [][SimNext]_vars /\ WF_vars(SimNext)

----------------------------------------------------------------------------
(* _run_analysis_with_progress next to its simulation task, with the        *)
(* database operations in flight: the job path awaits its operations on the *)
(* session db of _run_analysis_job, wait_for runs run_coverage_analysis on  *)
(* the same db while the job path is suspended, and the simulation writes   *)
(* in between. unit.pc is the await the job path is suspended on.           *)

PathInsideWaitFor == {"provider", "path_save", "path_refresh", "path_report_failed"}
PathAwaitingEstimator == {"path_await_ok", "path_await_error"}

\* the unit of concurrency that has an operation in flight on db at pc:
\* the job's task, or the one wait_for runs the analysis in
DbUser(pc) ==
    IF pc \in {"update_10", "update_90", "path_on_cancel"} THEN {"job"}
    ELSE IF pc \in {"path_save", "path_refresh", "path_report_failed"} THEN {"analysis"}
    ELSE {}

\* the units with an operation in flight on session
UsersOf(session) ==
    (IF session = JobSession THEN DbUser(unit.pc) ELSE {})
        \cup (IF est.pc \in {"writing", "end_writing"} /\ est.session = session
              THEN {"simulation"} ELSE {})

SessionInit ==
    /\ job = DoUpdateProgress(NewJob, ProgressStarting, PROCESSING, "unit")
    /\ unit = [NewUnit EXCEPT !.pc = "update_10"]
    /\ est = [NewSimulation(SimulationStart, SimulationEnd, MaxDuration) EXCEPT !.pc = "none"]
    /\ jobStale = FALSE
    /\ report = NewReport
    /\ activeTask = TRUE
    /\ callbacks = 0
    /\ started = 1
    /\ hist = NewHist
    /\ raw = NoPayload
    /\ parsed = NotParsed
    /\ stored = NotStored
    /\ chunking = NoChunking
    /\ request = NoRequest

\* progress_task.cancel(): a request, unless the task is already done
CancelSimulation(e) ==
    IF e.pc \in {"none", "done", "cancelled"} THEN e ELSE [e EXCEPT !.cancel = TRUE]

\* update_progress(job_id, 10, db=db) returns; create_task(simulation);
\* wait_for(run_coverage_analysis(...)): the provider is called
PathStart(max_duration) ==
    /\ unit.pc = "update_10"
    /\ ~unit.cancel
    /\ job' = DoUpdateProgress(job, ProgressScriptProcessed, None, "unit")
    /\ est' = NewSimulation(SimulationStart, SimulationEnd, max_duration)
    /\ unit' = [unit EXCEPT !.pc = "provider"]
    /\ UNCHANGED <<jobStale, report, activeTask, callbacks, started, hist,
                   parseVars, chunkVars, request>>

\* the provider answers: save_analysis_results(db) or, on an error,
\* pipeline.mark_failed(db) is awaited
PathProviderReturns(out) ==
    /\ unit.pc = "provider"
    /\ ~unit.cancel
    /\ unit' = IF out = "ok"
               THEN [unit EXCEPT !.pc = "path_save", !.model = MODEL_KIMI,
                                 !.result = "primary"]
               ELSE [unit EXCEPT !.pc = "path_report_failed",
                                 !.exc = Exc(PrimaryErrorClass(out), PrimaryErrorMsg(out))]
    /\ UNCHANGED <<job, jobStale, report, activeTask, callbacks, started, est, hist,
                   parseVars, chunkVars, request>>

\* the commit of save_analysis_results returns; db.refresh(report) is awaited
PathSave ==
    /\ unit.pc = "path_save"
    /\ ~unit.cancel
    /\ report' = SaveAnalysisResults(report, unit.result, unit.model)
    /\ unit' = [unit EXCEPT !.pc = "path_refresh"]
    /\ UNCHANGED <<job, jobStale, activeTask, callbacks, started, est, hist,
                   parseVars, chunkVars, request>>

\* refresh returns, wait_for returns: progress_task.cancel(), await progress_task
PathRefresh ==
    /\ unit.pc = "path_refresh"
    /\ ~unit.cancel
    /\ est' = CancelSimulation(est)
    /\ unit' = [unit EXCEPT !.pc = "path_await_ok"]
    /\ UNCHANGED <<job, jobStale, report, activeTask, callbacks, started, hist,
                   parseVars, chunkVars, request>>

\* pipeline.mark_failed returns, AnalysisError leaves wait_for:
\* progress_task.cancel(), await progress_task
PathReportFailed ==
    /\ unit.pc = "path_report_failed"
    /\ ~unit.cancel
    /\ report' = ReportMarkFailed(report, unit.exc.msg)
    /\ est' = CancelSimulation(est)
    /\ unit' = [unit EXCEPT !.pc = "path_await_error", !.exc = CoverageFailed(@)]
    /\ UNCHANGED <<job, jobStale, activeTask, callbacks, started, hist,
                   parseVars, chunkVars, request>>

\* the 300 s deadline: wait_for cancels the analysis, waits until it has
\* ended and raises TimeoutError; progress_task.cancel(), await progress_task
PathTimeout ==
    /\ unit.pc \in PathInsideWaitFor
    /\ ~unit.cancel
    /\ est' = CancelSimulation(est)
    /\ unit' = [unit EXCEPT !.pc = "path_await_error",
                            !.exc = Exc("AnalysisError", MsgTimedOut)]
    /\ UNCHANGED <<job, jobStale, report, activeTask, callbacks, started, hist,
                   parseVars, chunkVars, request>>

\* the simulation task has ended: after a result update_progress(job_id, 90,
\* db=db) is awaited, after an error the exception leaves
PathAwait ==
    /\ unit.pc \in PathAwaitingEstimator
    /\ ~unit.cancel
    /\ est.pc \in {"done", "cancelled"}
    /\ unit' = [unit EXCEPT !.pc = IF unit.pc = "path_await_ok" THEN "update_90"
                                   ELSE "path_raised"]
    /\ UNCHANGED <<job, jobStale, report, activeTask, callbacks, started, est, hist,
                   parseVars, chunkVars, request>>

\* update_progress(job_id, 90, db=db) returns, the report is returned
PathProcessingResults ==
    /\ unit.pc = "update_90"
    /\ ~unit.cancel
    /\ job' = DoUpdateProgress(job, ProgressProcessingResults, None, "unit")
    /\ unit' = [unit EXCEPT !.pc = "path_returned"]
    /\ UNCHANGED <<jobStale, report, activeTask, callbacks, started, est, hist,
                   parseVars, chunkVars, request>>

\* cancel_job: task.cancel() on the job's task
PathCancelJob ==
    /\ unit.pc \notin {"path_returned", "path_raised"}
    /\ ~unit.cancel
    /\ ~hist.cancelled
    /\ unit' = [unit EXCEPT !.cancel = TRUE]
    /\ UNCHANGED <<job, jobStale, report, activeTask, callbacks, started, est, hist,
                   parseVars, chunkVars, request>>

\* CancelledError is raised in the job path. Around "await progress_task" it
\* is passed over; elsewhere the operation in flight (and, inside wait_for,
\* the analysis) is cancelled first, nothing cancels the simulation, and
\* "except CancelledError" of _run_analysis_job awaits
\* mark_failed(job_id, "Job was cancelled", db)
PathCancelled ==
    /\ unit.cancel
    /\ unit' = IF unit.pc \in PathAwaitingEstimator
               THEN [unit EXCEPT !.cancel = FALSE,
                                 !.pc = IF unit.pc = "path_await_ok" THEN "update_90"
                                        ELSE "path_raised"]
               ELSE IF unit.pc = "path_on_cancel"
               THEN [unit EXCEPT !.cancel = FALSE, !.pc = "path_raised"]
               ELSE [unit EXCEPT !.cancel = FALSE, !.pc = "path_on_cancel"]
    /\ hist' = [hist EXCEPT !.cancelled = TRUE]
    /\ UNCHANGED <<job, jobStale, report, activeTask, callbacks, started, est,
                   parseVars, chunkVars, request>>

\* mark_failed(job_id, "Job was cancelled", db) returns, CancelledError leaves
PathMarkCancelled ==
    /\ unit.pc = "path_on_cancel"
    /\ ~unit.cancel
    /\ job' = DoMarkFailed(job, MsgCancelled, "unit")
    /\ unit' = [unit EXCEPT !.pc = "path_raised"]
    /\ UNCHANGED <<jobStale, report, activeTask, callbacks, started, est, hist,
                   parseVars, chunkVars, request>>

\* CancelledError in the simulation task, raised at its sleep or at its
\* write: "async with" closes the session, the write is not made
SimCancelled ==
    /\ est.cancel
    /\ est.pc \in {"sleep", "writing", "end_sleep", "end_writing"}
    /\ est' = [est EXCEPT !.pc = "cancelled", !.cancel = FALSE, !.session = NoSession]
    /\ UNCHANGED <<job, jobStale, report, activeTask, callbacks, started, unit, hist,
                   parseVars, chunkVars, request>>

SessionNext ==
    \/ \E max_duration \in SimDurations : PathStart(max_duration)
    \/ \E out \in PrimaryOutcomes : PathProviderReturns(out)
    \/ PathSave
    \/ PathRefresh
    \/ PathReportFailed
    \/ PathTimeout
    \/ PathAwait
    \/ PathProcessingResults
    \/ PathCancelJob
    \/ PathCancelled
    \/ PathMarkCancelled
    \/ SimNext
    \/ SimCancelled

SessionSpec == SessionInit /\ [][SessionNext]_vars

----------------------------------------------------------------------------
(* Database operations that fail. Under Spec every write of the simulation  *)
(* and of AnalysisPipeline.mark_failed succeeds; FaultSpec adds the runs    *)
(* in which one of them raises.                                             *)

\* _simulate_progress_updates: the session or _do_update_progress raises in
\* one of the two loops; "except Exception" prints and re-raises, the task
\* ends with the exception and nothing was written
EstFails ==
    /\ est.pc \in {"running", "ending"}
    /\ ~est.cancel
    /\ est' = [est EXCEPT !.pc = "failed"]
    /\ UNCHANGED <<job, jobStale, report, activeTask, callbacks, started, unit, hist,
                   parseVars, chunkVars, request>>

\* run_coverage_analysis's handler when pipeline.mark_failed cannot write
ReportMarkingFails(rollback) ==
    /\ unit.pc = "report_failed"
    /\ ~unit.cancel
    /\ est' = CancelEstimator(est)
    /\ unit' = [unit EXCEPT !.pc = "await_est_error",
                            !.exc = RaisedAfterMarking(@, "error", rollback)]
    /\ hist' = [hist EXCEPT !.failure = unit.exc,
                            !.marking = IF rollback = "ok" THEN "rolled_back"
                                        ELSE "rollback_failed"]
    /\ UNCHANGED <<job, jobStale, report, activeTask, callbacks, started,
                   parseVars, chunkVars, request>>

FaultNext ==
    \/ Next
    \/ EstFails
    \/ \E rollback \in DbOutcomes : ReportMarkingFails(rollback)

FaultSpec == Init /\ [][FaultNext]_vars

----------------------------------------------------------------------------
(* AnalysisPipeline._parse_analysis_result: validation of a provider's     *)
(* payload.  A JSON value is a record tagged with its Python type; a str   *)
(* that the code inspects is the sequence of its characters, a str that it *)
(* only slices is its length, a str that it compares as a whole its text.  *)

Missing == [t |-> "missing"]
Null == [t |-> "null"]
IntV(n) == [t |-> "int", n |-> n]
BoolV(b) == [t |-> "bool", b |-> b]
\* a finite float, given in tenths (7.5 is FloatV(75))
FloatV(tenths) == [t |-> "float", tenths |-> tenths]
NaN == [t |-> "nan"]
StrV(chars) == [t |-> "str", s |-> chars]
TextV(len) == [t |-> "text", len |-> len]
\* a str that the code compares as a whole
NameV(name) == [t |-> "name", name |-> name]
\* a list: the sequence of its items
ListV(items) == [t |-> "list", items |-> items]
\* a subscore entry given as an object
ScoreDict(score, rationale, note) ==
    [t |-> "dict", score |-> score, rationale |-> rationale, note |-> note]
\* an evidence quote given as an object
QuoteDict(quote, page, context) ==
    [t |-> "dict", quote |-> quote, page |-> page, context |-> context]

\* dict.get(key, default)
Get(v, default) == IF v = Missing THEN default ELSE v

Digits == <<"0", "1", "2", "3", "4", "5", "6", "7", "8", "9">>
IsDigit(c) == \E d \in 1..10 : Digits[d] = c
DigitValue(c) == (CHOOSE d \in 1..10 : Digits[d] = c) - 1

RECURSIVE DigitsValue(_)
DigitsValue(ds) ==
    IF ds = <<>> THEN 0
    ELSE 10 * DigitsValue(SubSeq(ds, 1, Len(ds) - 1)) + DigitValue(ds[Len(ds)])

RECURSIVE Strip(_)
Strip(cs) ==
    IF cs = <<>> THEN cs
    ELSE IF Head(cs) = " " THEN Strip(Tail(cs))
    ELSE IF cs[Len(cs)] = " " THEN Strip(SubSeq(cs, 1, Len(cs) - 1))
    ELSE cs

\* the digits of a str after its blanks and its sign
Unsigned(cs) ==
    LET b == Strip(cs)
    IN  IF b # <<>> /\ Head(b) \in {"+", "-"} THEN Tail(b) ELSE b

\* int(str) accepts blanks, a sign, decimal digits
IsIntLiteral(cs) ==
    LET ds == Unsigned(cs)
    IN  ds # <<>> /\ \A i \in 1..Len(ds) : IsDigit(ds[i])

StrToInt(cs) ==
    LET b == Strip(cs)
    IN  IF Head(b) = "-" THEN 0 - DigitsValue(Unsigned(cs)) ELSE DigitsValue(Unsigned(cs))

\* int(float) truncates toward zero
Truncate(tenths) == IF tenths >= 0 THEN tenths \div 10 ELSE 0 - ((0 - tenths) \div 10)

\* int(v) returns (otherwise it raises TypeError or ValueError)
CanInt(v) ==
    \/ v.t \in {"int", "bool", "float"}
    \/ v.t = "str" /\ IsIntLiteral(v.s)

\* int(v)
PyInt(v) ==
    CASE v.t = "int" -> v.n
      [] v.t = "bool" -> IF v.b THEN 1 ELSE 0
      [] v.t = "float" -> Truncate(v.tenths)
      [] OTHER -> StrToInt(v.s)

\* a variant without the lower limit
ClampScoreUpperOnly(n) == Min(10, n)

\* min(10, max(0, n))
ClampScore(n) == Min(10, Max(0, n))

\* score_mapping, in the order of its items
Categories == <<"concept", "character", "structure", "dialogue", "market">>
CategorySet == {Categories[i] : i \in 1..Len(Categories)}
ScoreMapping ==
    [concept |-> <<"concept", "premise", "idea", "hook">>,
     character |-> <<"character", "characters", "protagonist", "ensemble">>,
     structure |-> <<"structure", "pacing", "plot", "narrative">>,
     dialogue |-> <<"dialogue", "writing", "voice", "execution">>,
     market |-> <<"market", "viability", "commercial", "audience", "timeliness">>]

AliasKeys == UNION {{ScoreMapping[c][i] : i \in 1..Len(ScoreMapping[c])} : c \in CategorySet}
\* a key no category knows
OtherKey == "theme"
AllKeys == AliasKeys \cup {OtherKey}

\* a subscores object: every key to its value, Missing for a key it lacks
DictOf(K, f) == [t |-> "dict", m |-> [k \in AllKeys |-> IF k \in K THEN f[k] ELSE Missing]]
EmptyDict == [t |-> "dict", m |-> [k \in AllKeys |-> Missing]]

\* "key in subscores" can be evaluated (otherwise TypeError)
CanTestKeys(sub) == sub.t \in {"dict", "list"}

\* key in subscores
Has(sub, key) ==
    IF sub.t = "dict" THEN sub.m[key] # Missing
    ELSE \E i \in 1..Len(sub.items) : sub.items[i] = NameV(key)

\* the first of possible_keys that subscores has, as its index (0: none)
FirstKey(sub, possible_keys) ==
    LET found == {i \in 1..Len(possible_keys) : Has(sub, possible_keys[i])}
    IN  IF found = {} THEN 0 ELSE CHOOSE i \in found : \A j \in found : i <= j

\* the body of the loop over possible_keys raises: subscores[key] on a list,
\* or int() of something that is no number
SubscoreRaises(sub, possible_keys) ==
    LET i == FirstKey(sub, possible_keys)
    IN  /\ i # 0
        /\ \/ sub.t # "dict"
           \/ LET score_data == sub.m[possible_keys[i]]
              IN  IF score_data.t = "dict"
                  THEN ~CanInt(Get(score_data.score, IntV(0)))
                  ELSE ~CanInt(score_data)

\* a variant that reads the rationale of an object from its note only
ValidatedSubscoreNoteOnly(sub, possible_keys) ==
    LET i == FirstKey(sub, possible_keys)
    IN  IF i = 0 THEN [score |-> 0, rationale |-> StrV(<<>>)]
        ELSE LET score_data == sub.m[possible_keys[i]]
             IN  IF score_data.t = "dict"
                 THEN [score |-> ClampScore(PyInt(Get(score_data.score, IntV(0)))),
                       rationale |-> Get(score_data.note, StrV(<<>>))]
                 ELSE [score |-> ClampScore(PyInt(score_data)), rationale |-> StrV(<<>>)]

\* validated_subscores[standard_key]
ValidatedSubscore(sub, possible_keys) ==
    LET i == FirstKey(sub, possible_keys)
    IN  IF i = 0 THEN [score |-> 0, rationale |-> StrV(<<>>)]
        ELSE LET score_data == sub.m[possible_keys[i]]
             IN  IF score_data.t = "dict"
                 THEN [score |-> ClampScore(PyInt(Get(score_data.score, IntV(0)))),
                       rationale |-> Get(score_data.rationale, Get(score_data.note, StrV(<<>>)))]
                 ELSE [score |-> ClampScore(PyInt(score_data)), rationale |-> StrV(<<>>)]

\* sum(s["score"] for s in validated_subscores.values())
RECURSIVE SumScores(_, _)
SumScores(validated, n) ==
    IF n = 0 THEN 0 ELSE SumScores(validated, n - 1) + validated[Categories[n]].score

\* "part in text" for two str (sequences of characters or of fragments)
Contains(text, part) ==
    \E i \in 1..(Len(text) - Len(part) + 1) : SubSeq(text, i, i + Len(part) - 1) = part

LowerCase == <<"a", "b", "c", "d", "e", "f", "g", "h", "i", "j", "k", "l", "m",
               "n", "o", "p", "q", "r", "s", "t", "u", "v", "w", "x", "y", "z">>
UpperCase == <<"A", "B", "C", "D", "E", "F", "G", "H", "I", "J", "K", "L", "M",
               "N", "O", "P", "Q", "R", "S", "T", "U", "V", "W", "X", "Y", "Z">>

\* str.upper()
Upper(cs) ==
    [i \in 1..Len(cs) |->
        IF \E k \in 1..Len(LowerCase) : LowerCase[k] = cs[i]
        THEN UpperCase[CHOOSE k \in 1..Len(LowerCase) : LowerCase[k] = cs[i]]
        ELSE cs[i]]

RecommendThreshold == 38
ConsiderThreshold == 25

RECOMMEND == <<"R", "E", "C", "O", "M", "M", "E", "N", "D">>
CONSIDER == <<"C", "O", "N", "S", "I", "D", "E", "R">>
PASS == <<"P", "A", "S", "S">>
Recommend == StrV(<<"R", "e", "c", "o", "m", "m", "e", "n", "d">>)
Consider == StrV(<<"C", "o", "n", "s", "i", "d", "e", "r">>)
Pass == StrV(<<"P", "a", "s", "s">>)

\* the recommendation kept or replaced according to the total
ValidatedRecommendation(given, total) ==
    LET rec == Upper(given.s)
    IN  IF total >= RecommendThreshold /\ ~Contains(rec, RECOMMEND) THEN Recommend
        ELSE IF total >= ConsiderThreshold /\ ~Contains(rec, CONSIDER) /\ ~Contains(rec, RECOMMEND)
             THEN Consider
        ELSE IF total < ConsiderThreshold /\ ~Contains(rec, PASS) THEN Pass
        ELSE given

QuoteLimit == 500
ContextLimit == 200

\* v[:limit] can be evaluated (otherwise TypeError)
CanSlice(v) == v.t \in {"text", "str", "list"}

\* v[:limit]
Slice(v, limit) ==
    CASE v.t = "text" -> TextV(Min(v.len, limit))
      [] v.t = "str" -> StrV(SubSeq(v.s, 1, Min(Len(v.s), limit)))
      [] OTHER -> ListV(SubSeq(v.items, 1, Min(Len(v.items), limit)))

\* raw_result["evidence_quotes"] once it is made a list
QuoteItems(quotes) == IF quotes.t = "list" THEN quotes.items ELSE <<>>

IsDict(v) == v.t = "dict"

\* the validation of one quote raises
QuoteRaises(quote) ==
    \/ ~CanSlice(Get(quote.quote, TextV(0)))
    \/ ~CanInt(Get(quote.page, IntV(0)))
    \/ ~CanSlice(Get(quote.context, TextV(0)))

ValidatedQuote(quote) ==
    [quote |-> Slice(Get(quote.quote, TextV(0)), QuoteLimit),
     page |-> PyInt(Get(quote.page, IntV(0))),
     context |-> Slice(Get(quote.context, TextV(0)), ContextLimit)]

\* validated_quotes: the items that are objects, validated, in their order
ValidatedQuotes(items) ==
    LET dicts == SelectSeq(items, IsDict)
    IN  [i \in 1..Len(dicts) |-> ValidatedQuote(dicts[i])]

\* the fields the code passes on as they are, with the default of a missing one
TextFields == {"logline", "synopsis", "overall_comments"}
ListFields == {"strengths", "weaknesses"}
PassedFields(given) ==
    [f \in TextFields \cup ListFields |->
        IF f \in given THEN "given" ELSE IF f \in ListFields THEN "[]" ELSE ""]

ParseRaised == [t |-> "raise", error |-> "AnalysisError"]

\* _parse_analysis_result(raw_result): the validated result, or AnalysisError
\* for any exception of the validation
ParseAnalysisResult(raw_result) ==
    IF raw_result.t # "dict" THEN ParseRaised
    ELSE
    LET subscores == Get(raw_result.subscores, EmptyDict)
        validated == [c \in CategorySet |-> ValidatedSubscore(subscores, ScoreMapping[c])]
        total == SumScores(validated, Len(Categories))
        rec == Get(raw_result.recommendation, StrV(<<>>))
        items == QuoteItems(Get(raw_result.evidence_quotes, ListV(<<>>)))
    IN  IF \/ ~CanTestKeys(subscores)
           \/ \E c \in CategorySet : SubscoreRaises(subscores, ScoreMapping[c])
           \/ rec.t # "str"
           \/ \E i \in 1..Len(items) : IsDict(items[i]) /\ QuoteRaises(items[i])
        THEN ParseRaised
        ELSE [t |-> "ok",
              fields |-> PassedFields(raw_result.given),
              subscores |-> validated,
              total_score |-> total,
              recommendation |-> ValidatedRecommendation(rec, total),
              evidence_quotes |-> ValidatedQuotes(items)]

----------------------------------------------------------------------------
(* The payloads _parse_analysis_result is applied to.                      *)

\* values of a subscores entry: numbers in and out of range, floats,
\* numeric and other text, null, objects with and without a score
ScoreValues ==
    {IntV(7), IntV(15), IntV(0 - 4), FloatV(75), BoolV(TRUE),
     StrV(<<"8">>), StrV(<<"7", ".", "5">>), Null,
     ScoreDict(IntV(9), TextV(40), Missing),
     ScoreDict(Missing, Missing, TextV(12)),
     ScoreDict(StrV(<<" ", "-", "3">>), Null, TextV(12))}

\* standard keys, aliases (two of one category) and an unknown key
SampleKeys == {"concept", "premise", "hook", "characters", "voice", OtherKey}

\* the key sets of objects with at most MaxKeys keys
SparseKeySets == {S \in SUBSET SampleKeys : Cardinality(S) <= MaxKeys}

\* whole scores for objects with the five standard keys
FullScores == {IntV(0), IntV(5), IntV(8), IntV(10)}

\* no object at all
OddSubscores ==
    {Missing, Null, IntV(3), ListV(<<>>), ListV(<<NameV("premise"), NameV(OtherKey)>>),
     ListV(<<IntV(1), NameV(OtherKey)>>)}

RecommendationInputs ==
    {Missing, Null, Recommend, Consider, Pass,
     StrV(<<"p", "a", "s", "s">>),
     StrV(<<"S", "t", "r", "o", "n", "g", " ", "c", "o", "n", "s", "i", "d", "e", "r">>),
     StrV(<<"M", "a", "y", "b", "e">>)}

QuoteInputs ==
    {Missing, TextV(30),
     ListV(<<QuoteDict(TextV(600), StrV(<<"1", "2">>), TextV(250)), NameV("stray"),
             QuoteDict(Missing, Missing, Missing)>>),
     ListV(<<QuoteDict(TextV(10), StrV(<<"i", "v">>), TextV(5))>>),
     ListV(<<QuoteDict(Null, IntV(3), TextV(5))>>)}

Payload(given, subscores, total_score, recommendation, evidence_quotes) ==
    [t |-> "dict", given |-> given, subscores |-> subscores, total_score |-> total_score,
     recommendation |-> recommendation, evidence_quotes |-> evidence_quotes]

AllFields == TextFields \cup ListFields

\* the payload is one of: a sparse subscores object with any kind of value
\* under a raw total; something else in place of the object, with any
\* evidence quotes; a full set of whole scores with any recommendation;
\* no subscores key, with any recommendation; no object at all
RawPayload ==
    \/ \E K \in SparseKeySets, tot \in {Missing, IntV(99)} : \E f \in [K -> ScoreValues] :
          raw = Payload(AllFields, DictOf(K, f), tot, Consider, Missing)
    \/ \E g \in {{}, {"logline", "strengths"}}, sub \in OddSubscores, q \in QuoteInputs :
          raw = Payload(g, sub, IntV(20), Consider, q)
    \/ \E f \in [CategorySet -> FullScores], rec \in RecommendationInputs :
          raw = Payload(AllFields, DictOf(CategorySet, f), IntV(20), rec, Missing)
    \/ \E rec \in RecommendationInputs :
          raw = Payload(AllFields, Missing, Missing, rec, Missing)
    \/ raw \in {Null, ListV(<<>>)}

ParseInit ==
    /\ job = NoJob
    /\ jobStale = FALSE
    /\ report = NewReport
    /\ activeTask = FALSE
    /\ callbacks = 0
    /\ started = 0
    /\ unit = NewUnit
    /\ est = NoEst
    /\ hist = NewHist
    /\ RawPayload
    /\ parsed = NotParsed
    /\ stored = NotStored
    /\ chunking = NoChunking
    /\ request = NoRequest

\* parsed_result = self._parse_analysis_result(raw_result)
ParseResult ==
    /\ raw # NoPayload
    /\ parsed = NotParsed
    /\ parsed' = ParseAnalysisResult(raw)
    /\ UNCHANGED <<jobVars, raw, stored, chunkVars>>

\* Recommendation and CoverageReport.calculate_recommendation
RecommendationPASS == "Pass"
RecommendationCONSIDER == "Consider"
RecommendationRECOMMEND == "Recommend"

CalculateRecommendation(total_score) ==
    IF total_score >= RecommendThreshold THEN RecommendationRECOMMEND
    ELSE IF total_score >= ConsiderThreshold THEN RecommendationCONSIDER
    ELSE RecommendationPASS

\* save_analysis_results: the enum value stored for results["recommendation"]
PersistedRecommendation(rec) ==
    LET rec_str == Upper(rec.s)
    IN  IF Contains(rec_str, RECOMMEND) THEN RecommendationRECOMMEND
        ELSE IF Contains(rec_str, CONSIDER) THEN RecommendationCONSIDER
        ELSE RecommendationPASS

\* save_analysis_results: the report columns written from the results
StoredResults(results) ==
    [t |-> "saved",
     fields |-> results.fields,
     subscores |-> [c \in DOMAIN results.subscores |-> results.subscores[c].score],
     total_score |-> results.total_score,
     recommendation |-> PersistedRecommendation(results.recommendation),
     evidence_quotes |-> results.evidence_quotes]

\* pipeline.save_analysis_results(report_id, results, model_used, db)
SaveParsed ==
    /\ parsed.t = "ok"
    /\ stored = NotStored
    /\ stored' = StoredResults(parsed)
    /\ UNCHANGED <<jobVars, raw, parsed, chunkVars>>

\* the dictionary _parse_analysis_result returns, read as an argument of it:
\* raw_result with every required field set, subscores an object of the five
\* standard keys holding {"score": int, "rationale": ...}, total_score an int
\* and evidence_quotes a list of {"quote", "page": int, "context"} objects
AsRawResult(result) ==
    Payload(AllFields,
            DictOf(CategorySet,
                   [c \in CategorySet |->
                       ScoreDict(IntV(result.subscores[c].score),
                                 result.subscores[c].rationale, Missing)]),
            IntV(result.total_score),
            result.recommendation,
            ListV([i \in 1..Len(result.evidence_quotes) |->
                      QuoteDict(result.evidence_quotes[i].quote,
                                IntV(result.evidence_quotes[i].page),
                                result.evidence_quotes[i].context)]))

ParseNext == ParseResult \/ SaveParsed

ParseSpec == ParseInit /\ [][ParseNext]_vars

----------------------------------------------------------------------------
(* MoonshotClient.analyze_with_chunking (ClaudeClient's is the same code):  *)
(* the splitting loop, then one call for a one-chunk plan, or a call per    *)
(* chunk followed by the synthesis call.  The text is its length and the    *)
(* set of the positions that hold a newline.                                *)

MaxTextLen == 6
MaxChunkSize == 4
MaxNewlines == 2
MaxChunks == 8

\* script_text.rfind('\n', end - 100, end + 100)
NewlineWindow == 100

\* how a slice bound is read against a text of length len: a negative
\* bound counts from the end, and both are cut to 0..len
SliceIndex(i, len) == IF i < 0 THEN Max(0, i + len) ELSE Min(i, len)

\* text.rfind('\n', lo, hi): the last newline of text[lo:hi], or -1
RFind(text, lo, hi) ==
    LET from == SliceIndex(lo, text.len)
        to == SliceIndex(hi, text.len)
        hits == {p \in text.newlines : from <= p /\ p + 1 <= to}
    IN  IF hits = {} THEN -1 ELSE CHOOSE p \in hits : \A q \in hits : q <= p

\* text[start:end]: the positions the chunk holds, as <<first, past-the-last>>
Slice2(text, start, end) ==
    LET from == SliceIndex(start, text.len)
        to == SliceIndex(end, text.len)
    IN  <<from, Max(from, to)>>

\* the end of the chunk that begins at start
ChunkEnd(text, start, chunk_size) ==
    LET end == start + chunk_size
    IN  IF end < text.len
        THEN LET newline_pos == RFind(text, end - NewlineWindow, end + NewlineWindow)
             IN  IF newline_pos # -1 THEN newline_pos ELSE end
        ELSE end

Texts ==
    {[len |-> n, newlines |-> nl] :
        n \in 0..MaxTextLen,
        nl \in {x \in SUBSET (0..(MaxTextLen - 1)) : Cardinality(x) <= MaxNewlines}}

NewChunking(text, chunk_size, overlap) ==
    [pc |-> "split", text |-> text, chunk_size |-> chunk_size, overlap |-> overlap,
     start |-> 0, chunks |-> <<>>, calls |-> <<>>, chunk_results |-> <<>>, exc |-> None]

ChunkInit ==
    /\ job = NoJob
    /\ jobStale = FALSE
    /\ report = NewReport
    /\ activeTask = FALSE
    /\ callbacks = 0
    /\ started = 0
    /\ unit = NewUnit
    /\ est = NoEst
    /\ hist = NewHist
    /\ raw = NoPayload
    /\ parsed = NotParsed
    /\ stored = NotStored
    /\ request = NoRequest
    /\ \E text \in Texts, chunk_size \in 1..MaxChunkSize, overlap \in 0..MaxChunkSize :
          /\ \A p \in text.newlines : p < text.len
          /\ chunking = NewChunking(text, chunk_size, overlap)

\* one turn of "while start < len(script_text)"
SplitStep ==
    /\ chunking.pc = "split"
    /\ chunking.start < chunking.text.len
    /\ Len(chunking.chunks) < MaxChunks
    /\ LET end == ChunkEnd(chunking.text, chunking.start, chunking.chunk_size)
       IN  chunking' = [chunking EXCEPT
                          !.chunks = Append(@, Slice2(chunking.text, chunking.start, end)),
                          !.start = end - chunking.overlap]
    /\ UNCHANGED <<jobVars, parseVars>>

\* the loop has ended
SplitEnded(c) == c.pc = "split" /\ ~(c.start < c.text.len)

\* what a call of self.analyze_script leads to: its result, or the error it
\* raises
CallOutcomes == {"ok", "rate_limit", "timeout"}

\* where analyze_with_chunking is after a call that ended with out while it
\* was at pc: an error leaves the function
AfterCallIgnoringErrors(pc, out) == pc

AfterCall(pc, out) == IF out = "ok" THEN pc ELSE "raised"

\* len(chunks) == 1: return await self.analyze_script(chunks[0], prompt, model)
SingleCall(out) ==
    /\ SplitEnded(chunking)
    /\ Len(chunking.chunks) = 1
    /\ chunking' = [chunking EXCEPT
                      !.pc = AfterCall("returned", out),
                      !.exc = IF out = "ok" THEN @ ELSE out,
                      !.calls = Append(@, [kind |-> "single", chunk |-> 1, of |-> 1,
                                           partials |-> <<>>, out |-> out])]
    /\ UNCHANGED <<jobVars, parseVars>>

\* the loop has ended with another number of chunks: go on to the calls
BeginChunkCalls ==
    /\ SplitEnded(chunking)
    /\ Len(chunking.chunks) # 1
    /\ chunking' = [chunking EXCEPT !.pc = "chunks"]
    /\ UNCHANGED <<jobVars, parseVars>>

\* for i, chunk in enumerate(chunks): one call with the note "chunk i+1 of n",
\* its result appended to chunk_results (a result is named by its chunk)
ChunkCall(out) ==
    /\ chunking.pc = "chunks"
    /\ Len(chunking.chunk_results) < Len(chunking.chunks)
    /\ LET i == Len(chunking.chunk_results) + 1
       IN  chunking' = [chunking EXCEPT
                          !.pc = AfterCall("chunks", out),
                          !.exc = IF out = "ok" THEN @ ELSE out,
                          !.chunk_results = IF out = "ok" THEN Append(@, i) ELSE @,
                          !.calls = Append(@, [kind |-> "chunk", chunk |-> i,
                                               of |-> Len(chunking.chunks),
                                               partials |-> <<>>, out |-> out])]
    /\ UNCHANGED <<jobVars, parseVars>>

\* the for loop has gone through the chunks
SynthesisDueAfterFirst(c) == c.pc = "chunks" /\ c.chunk_results # <<>>

SynthesisDue(c) == c.pc = "chunks" /\ Len(c.chunk_results) = Len(c.chunks)

\* the synthesis call over json.dumps(chunk_results)
SynthesisCall(out) ==
    /\ SynthesisDue(chunking)
    /\ chunking' = [chunking EXCEPT
                      !.pc = AfterCall("returned", out),
                      !.exc = IF out = "ok" THEN @ ELSE out,
                      !.calls = Append(@, [kind |-> "synthesis", chunk |-> 0,
                                           of |-> Len(chunking.chunks),
                                           partials |-> chunking.chunk_results,
                                           out |-> out])]
    /\ UNCHANGED <<jobVars, parseVars>>

ChunkNext ==
    \/ SplitStep
    \/ \E out \in CallOutcomes : SingleCall(out)
    \/ BeginChunkCalls
    \/ \E out \in CallOutcomes : ChunkCall(out)
    \/ \E out \in CallOutcomes : SynthesisCall(out)

ChunkSpec == ChunkInit /\ [][ChunkNext]_vars

----------------------------------------------------------------------------
(* JobManager.create_job and the operations that write the row afterwards. *)

ScriptTexts == {"", "FADE IN:", "INT. KITCHEN - DAY"}

\* hashlib.sha256(text.encode()).hexdigest() of the texts above
Sha256Hex ==
    [t \in ScriptTexts |->
        CASE t = "" -> "e3b0c44298fc1c149afbf4c8996fb92427ae41e4649b934ca495991b7852b855"
          [] t = "FADE IN:" ->
                "c2c755cfaec9f9dde5e18f2d3787af0d56962e953225be55c8900997567a6a24"
          [] OTHER -> "4017e173f814e00e2092c94b50c83fc1989e7421faca65ad0038a4629ab9d001"]

\* a variant that keeps the text
HashScriptTextKeepingText(script_text) == script_text

\* _hash_script_text
HashScriptText(script_text) == Sha256Hex[script_text]

Genres == {None, "drama"}
CompLists == {<<>>, <<"Succession", "The Bear">>}
Depths == {"quick", "standard", "deep"}

\* the row create_job adds: AnalysisJob(id=..., status=QUEUED, progress=0, ...)
CreatedJob(script_text, genre, comps, analysis_depth) ==
    [exists |-> TRUE, status |-> QUEUED, progress |-> 0, error |-> <<>>,
     completedAt |-> FALSE, updatedAt |-> "create",
     script_text_hash |-> HashScriptText(script_text),
     genre |-> genre, comps |-> comps, analysis_depth |-> analysis_depth]

CreateInit ==
    /\ job = NoJob
    /\ jobStale = FALSE
    /\ report = NewReport
    /\ activeTask = FALSE
    /\ callbacks = 0
    /\ started = 0
    /\ unit = NewUnit
    /\ est = NoEst
    /\ hist = NewHist
    /\ raw = NoPayload
    /\ parsed = NotParsed
    /\ stored = NotStored
    /\ chunking = NoChunking
    /\ request = NoRequest

\* create_job(script_id, script_text, report_id, db, genre, comps, analysis_depth)
CreateJob(script_text, genre, comps, analysis_depth) ==
    /\ ~job.exists
    /\ request' = [t |-> "create", script_text |-> script_text, genre |-> genre,
                   comps |-> comps, analysis_depth |-> analysis_depth]
    /\ job' = CreatedJob(script_text, genre, comps, analysis_depth)
    /\ UNCHANGED <<jobStale, report, activeTask, callbacks, started, unit, est, hist,
                   parseVars, chunkVars>>

\* the values update_progress is called with in _run_analysis_job,
\* _run_analysis_with_progress and _simulate_progress_updates
ProgressWrites ==
    {ProgressStarting, ProgressScriptProcessed, SimulationStart, SimulationEnd,
     ProgressProcessingResults}

\* update_progress(job_id, progress, status) on the row
RowUpdateProgress(progress, status) ==
    /\ job.exists
    /\ job' = DoUpdateProgress(job, progress, status, "unit")
    /\ UNCHANGED <<jobStale, report, activeTask, callbacks, started, unit, est, hist,
                   parseVars, chunkVars, request>>

\* mark_completed(job_id) on the row
RowMarkCompleted ==
    /\ job.exists
    /\ job' = DoMarkCompleted(job, "unit")
    /\ UNCHANGED <<jobStale, report, activeTask, callbacks, started, unit, est, hist,
                   parseVars, chunkVars, request>>

\* the messages mark_failed is called with
FailureMessages ==
    {MsgCancelled, MsgStale, JobErrorMsg(Exc("AnalysisError", MsgTimedOut))}
    \cup {JobErrorMsg(CoverageFailed(Exc(PrimaryErrorClass(out), PrimaryErrorMsg(out)))) :
             out \in PrimaryErrors}

\* mark_failed(job_id, error_message) on the row
RowMarkFailed(error_message) ==
    /\ job.exists
    /\ job' = DoMarkFailed(job, error_message, "unit")
    /\ UNCHANGED <<jobStale, report, activeTask, callbacks, started, unit, est, hist,
                   parseVars, chunkVars, request>>

CreateNext ==
    \/ \E script_text \in ScriptTexts, genre \in Genres, comps \in CompLists,
          analysis_depth \in Depths : CreateJob(script_text, genre, comps, analysis_depth)
    \/ \E progress \in ProgressWrites, status \in {None, PROCESSING} :
          RowUpdateProgress(progress, status)
    \/ RowMarkCompleted
    \/ \E error_message \in FailureMessages : RowMarkFailed(error_message)

CreateSpec == CreateInit /\ [][CreateNext]_vars

----------------------------------------------------------------------------
(* MoonshotClient.chat_completion: from the outcome of the POST to what the *)
(* call returns or raises. request holds the exchange.                      *)

\* str.lower()
Lower(cs) ==
    [i \in 1..Len(cs) |->
        IF \E k \in 1..Len(UpperCase) : UpperCase[k] = cs[i]
        THEN LowerCase[CHOOSE k \in 1..Len(UpperCase) : UpperCase[k] = cs[i]]
        ELSE cs[i]]

StatusCodes == {200, 400, 401, 429, 500, 503}

\* error messages a provider sends; refusal: the message is the provider's
\* refusal of the content (policy, risk, rejection)
ProviderMessages ==
    <<[text |-> <<"T", "h", "e", " ", "r", "e", "q", "u", "e", "s", "t", " ", "w", "a", "s", " ", "r", "e", "j", "e", "c", "t", "e", "d", " ", "b", "e", "c", "a", "u", "s", "e", " ", "i", "t", " ", "w", "a", "s", " ", "c", "o", "n", "s", "i", "d", "e", "r", "e", "d", " ", "h", "i", "g", "h", " ", "r", "i", "s", "k">>,
        refusal |-> TRUE],
       [text |-> <<"C", "o", "n", "t", "e", "n", "t", " ", "r", "e", "j", "e", "c", "t", "e", "d", " ", "b", "y", " ", "m", "o", "d", "e", "r", "a", "t", "i", "o", "n", " ", "s", "y", "s", "t", "e", "m">>,
        refusal |-> TRUE],
       [text |-> <<"H", "i", "g", "h", " ", "r", "i", "s", "k", " ", "c", "o", "n", "t", "e", "n", "t", " ", "d", "e", "t", "e", "c", "t", "e", "d">>,
        refusal |-> TRUE],
       [text |-> <<"I", "n", "v", "a", "l", "i", "d", " ", "r", "e", "q", "u", "e", "s", "t", ":", " ", "m", "e", "s", "s", "a", "g", "e", " ", "c", "o", "n", "t", "e", "n", "t", " ", "i", "s", " ", "e", "m", "p", "t", "y">>,
        refusal |-> FALSE],
       [text |-> <<"I", "n", "v", "a", "l", "i", "d", " ", "r", "e", "q", "u", "e", "s", "t", ":", " ", "m", "a", "x", "_", "t", "o", "k", "e", "n", "s", " ", "i", "s", " ", "t", "o", "o", " ", "l", "a", "r", "g", "e">>,
        refusal |-> FALSE],
       [text |-> <<"I", "n", "v", "a", "l", "i", "d", " ", "A", "P", "I", " ", "k", "e", "y">>,
        refusal |-> FALSE],
       [text |-> <<"R", "a", "t", "e", " ", "l", "i", "m", "i", "t", " ", "e", "x", "c", "e", "e", "d", "e", "d">>,
        refusal |-> FALSE],
       [text |-> <<"S", "e", "r", "v", "e", "r", " ", "e", "r", "r", "o", "r">>,
        refusal |-> FALSE]>>

UnknownError == <<"U", "n", "k", "n", "o", "w", "n", " ", "e", "r", "r", "o", "r">>

\* the body of a response: empty, not JSON, {"error": "<str>"}, a JSON object
\* without error.message, or {"error": {"message": ProviderMessages[n]}}
Bodies ==
    {[kind |-> k, n |-> 0] : k \in {"empty", "not_json", "error_str", "no_message"}}
        \cup {[kind |-> "message", n |-> n] : n \in 1..Len(ProviderMessages)}

\* what client.post ends with
Transports ==
    {[kind |-> "response", status |-> st, body |-> b] : st \in StatusCodes, b \in Bodies}
        \cup {[kind |-> k, status |-> 0, body |-> [kind |-> "empty", n |-> 0]] :
                 k \in {"TimeoutException", "ConnectError", "HTTPError"}}

\* error_data = response.json() if response.text else {};
\* error_data.get("error", {}).get("message", "Unknown error"):
\* the message, or the exception the two lines raise
ErrorMessage(body) ==
    CASE body.kind = "not_json" -> [raised |-> "JSONDecodeError", text |-> <<>>]
      [] body.kind = "error_str" -> [raised |-> "AttributeError", text |-> <<>>]
      [] body.kind = "message" -> [raised |-> None, text |-> ProviderMessages[body.n].text]
      [] OTHER -> [raised |-> None, text |-> UnknownError]

\* "high risk" in error_str or "rejected" in error_str or "content" in error_str
LooksLikeModeration(error_msg) ==
    LET error_str == Lower(error_msg)
    IN  \/ Contains(error_str, <<"h", "i", "g", "h", " ", "r", "i", "s", "k">>)
        \/ Contains(error_str, <<"r", "e", "j", "e", "c", "t", "e", "d">>)
        \/ Contains(error_str, <<"c", "o", "n", "t", "e", "n", "t">>)

\* the class of what chat_completion raises for the transport outcome t,
\* or "returned"
ChatCompletion(t) ==
    IF t.kind # "response" THEN "LLMError"
    ELSE IF t.status = 429 THEN "LLMRateLimitError"
    ELSE IF t.status = 401 THEN "LLMError"
    ELSE IF t.status = 400
    THEN LET m == ErrorMessage(t.body)
         IN  IF m.raised # None THEN m.raised
             ELSE IF LooksLikeModeration(m.text) THEN "LLMContentModerationError"
             ELSE "LLMError"
    ELSE IF t.status # 200
    THEN LET m == ErrorMessage(t.body)
         IN  IF m.raised # None THEN m.raised ELSE "LLMError"
    ELSE IF t.body.kind \in {"empty", "not_json"} THEN "JSONDecodeError"
    ELSE "returned"

\* AnalysisPipeline.analyze_script calls the Fallback for this class only
TriggersFallback(class) == class = "LLMContentModerationError"

ClassifyInit ==
    /\ \E t \in Transports : request = [t |-> "exchange", transport |-> t, outcome |-> None]
    /\ job = NoJob
    /\ jobStale = FALSE
    /\ report = NewReport
    /\ activeTask = FALSE
    /\ callbacks = 0
    /\ started = 0
    /\ unit = NewUnit
    /\ est = NoEst
    /\ hist = NewHist
    /\ raw = NoPayload
    /\ parsed = NotParsed
    /\ stored = NotStored
    /\ chunking = NoChunking

\* the call ends
ChatCompletionEnds ==
    /\ request.t = "exchange"
    /\ request.outcome = None
    /\ request' = [request EXCEPT !.outcome = ChatCompletion(request.transport)]
    /\ UNCHANGED <<job, jobStale, report, activeTask, callbacks, started, unit, est, hist,
                   parseVars, chunkVars>>

ClassifySpec == ClassifyInit /\ [][ChatCompletionEnds]_vars

----------------------------------------------------------------------------
(* analyze_script of the two clients, from the completion to the parsed     *)
(* payload. A completion is a sequence of pieces: "{" and "}", "fence"     *)
(* (three backquotes, with or without the json tag), and "w" (other text). raw *)
(* holds the completion, parsed what analyze_script returns or raises.      *)

MaxPieces == 5
TokenLimit == 20

Pieces == {"{", "}", "fence", "w"}

Completions == UNION {[1..n -> Pieces] : n \in 0..MaxPieces}

\* opening minus closing braces among the first k pieces
Depth(content, k) ==
    Cardinality({i \in 1..k : content[i] = "{"}) - Cardinality({i \in 1..k : content[i] = "}"})

\* json.loads(content) succeeds: one object, braces balanced, nothing
\* before or after it, no fence in it (the parsed value is the text itself)
JsonLoads(content) ==
    /\ Len(content) >= 2
    /\ content[1] = "{"
    /\ \A i \in 1..Len(content) : content[i] # "fence"
    /\ \A k \in 1..(Len(content) - 1) : Depth(content, k) >= 1
    /\ Depth(content, Len(content)) = 0

NoMatch == [found |-> FALSE, group |-> <<>>]
Match(group) == [found |-> TRUE, group |-> group]

\* re.search for a fence, optional "json", blanks, (.*?), blanks, a fence,
\* with re.DOTALL: the text between the first fence and the next one
FencedBlock(content) ==
    LET fences == {i \in 1..Len(content) : content[i] = "fence"}
    IN  IF Cardinality(fences) < 2 THEN NoMatch
        ELSE LET a == CHOOSE i \in fences : \A j \in fences : i <= j
                 b == CHOOSE i \in fences \ {a} : \A j \in fences \ {a} : i <= j
             IN  Match(SubSeq(content, a + 1, b - 1))

\* re.search(r'\{.*\}', content, re.DOTALL): from the first "{" that has a
\* "}" after it to the last "}"
BraceSpan(content) ==
    LET closes == {i \in 1..Len(content) : content[i] = "}"}
        opens == {i \in 1..Len(content) :
                      content[i] = "{" /\ \E j \in closes : j > i}
    IN  IF opens = {} THEN NoMatch
        ELSE LET a == CHOOSE i \in opens : \A j \in opens : i <= j
                 b == CHOOSE i \in closes : \A j \in closes : i >= j
             IN  Match(SubSeq(content, a, b))

Returned(payload) == [t |-> "returned", payload |-> payload, error |-> None]
Raised(error) == [t |-> "raised", payload |-> <<>>, error |-> error]

\* completion_tokens >= token_limit * 0.95
NearLimit(completion_tokens, token_limit) == completion_tokens * 100 >= token_limit * 95

\* the LLMError of a completion that does not parse
ParseError(completion_tokens, token_limit) ==
    IF NearLimit(completion_tokens, token_limit) THEN Raised("truncated") ELSE Raised("parse")

\* MoonshotClient.analyze_script with expect_json: json.loads or LLMError
MoonshotAnalyzeScript(content, completion_tokens, token_limit) ==
    IF JsonLoads(content) THEN Returned(content)
    ELSE ParseError(completion_tokens, token_limit)

\* ClaudeClient.analyze_script with expect_json: json.loads, then the fenced
\* block, then the brace span, then LLMError ("if usage and ...")
ClaudeAnalyzeScript(content, has_usage, output_tokens, token_limit) ==
    IF JsonLoads(content) THEN Returned(content)
    ELSE IF FencedBlock(content).found /\ JsonLoads(FencedBlock(content).group)
         THEN Returned(FencedBlock(content).group)
    ELSE IF BraceSpan(content).found /\ JsonLoads(BraceSpan(content).group)
         THEN Returned(BraceSpan(content).group)
    ELSE IF has_usage THEN ParseError(output_tokens, token_limit)
    ELSE Raised("parse")

TokenCounts == {0, TokenLimit - 2, TokenLimit - 1, TokenLimit}

CompletionInit ==
    /\ \E client \in {"moonshot", "claude"}, content \in Completions,
          tokens \in TokenCounts, has_usage \in BOOLEAN :
           /\ client = "moonshot" => has_usage
           /\ raw = [t |-> "completion", client |-> client, content |-> content,
                     tokens |-> tokens, has_usage |-> has_usage]
    /\ parsed = NotParsed
    /\ stored = NotStored
    /\ job = NoJob
    /\ jobStale = FALSE
    /\ report = NewReport
    /\ activeTask = FALSE
    /\ callbacks = 0
    /\ started = 0
    /\ unit = NewUnit
    /\ est = NoEst
    /\ hist = NewHist
    /\ chunking = NoChunking
    /\ request = NoRequest

\* analyze_script handles the completion
AnalyzeScriptEnds ==
    /\ raw.t = "completion"
    /\ parsed = NotParsed
    /\ parsed' = IF raw.client = "moonshot"
                 THEN MoonshotAnalyzeScript(raw.content, raw.tokens, TokenLimit)
                 ELSE ClaudeAnalyzeScript(raw.content, raw.has_usage, raw.tokens, TokenLimit)
    /\ UNCHANGED <<jobVars, raw, stored, chunkVars>>

CompletionSpec == CompletionInit /\ [][AnalyzeScriptEnds]_vars

(***************************************************************************)
(* The provider fallback over a chunked analysis: analyze_script of the    *)
(* pipeline (analysis.py 140-186) calling analyze_with_chunking of the     *)
(* Moonshot client and, on a moderation rejection, of the Claude client    *)
(* (llm_client.py 304-337 and 608-641).  The variable chunking holds the   *)
(* analysis: the client in use, its chunk_results list and the provider    *)
(* calls made so far, each with the partial results its prompt carries.    *)
(***************************************************************************)
\* bound: the largest number of chunks of a plan
MaxPlan == 4

MoonshotClient == "moonshot_client"
ClaudeClient == "claude_client"

\* what one analyze_script call of a client can end with: only the Moonshot
\* client raises LLMContentModerationError (llm_client.py 151)
ProviderOutcomes(client) ==
    IF client = MoonshotClient THEN {"ok", "moderation", "rate_limit"}
                               ELSE {"ok", "rate_limit"}

\* the model name recorded for a client (analysis.py 157, 179)
ModelUsed(client) == IF client = MoonshotClient THEN MODEL_KIMI ELSE MODEL_CLAUDE_SONNET

\* variant: the second client goes on with the list the first one filled
AnalyzeWithChunkingResuming(client, a) == [a EXCEPT !.client = client]

\* entry of analyze_with_chunking of a client: chunk_results = [] is a local
\* of the call (llm_client.py 312, 616)
AnalyzeWithChunking(client, a) == [a EXCEPT !.client = client, !.chunk_results = <<>>]

\* analysis.py 124-157: the pipeline starts with the Moonshot client
NewAnalysis(use_chunking, count) ==
    AnalyzeWithChunking(MoonshotClient,
        [pc |-> "calls", client |-> None, use_chunking |-> use_chunking,
         count |-> count, chunk_results |-> <<>>, calls |-> <<>>,
         model_used |-> None])

\* the pipeline chunks only texts longer than 424000 characters with the
\* default chunk size, so a chunked analysis has at least two chunks
PipelineInit ==
    /\ \E use_chunking \in BOOLEAN : \E count \in 2..MaxPlan :
          chunking = NewAnalysis(use_chunking, IF use_chunking THEN count ELSE 1)
    /\ job = NoJob
    /\ jobStale = FALSE
    /\ report = NewReport
    /\ activeTask = FALSE
    /\ callbacks = 0
    /\ started = 0
    /\ unit = NewUnit
    /\ est = NoEst
    /\ hist = NewHist
    /\ raw = NoPayload
    /\ parsed = NotParsed
    /\ stored = NotStored
    /\ request = NoRequest

\* the except clauses of the pipeline (analysis.py 159-186) after a call of
\* the client in use raised: a moderation rejection of the Moonshot client
\* starts the Claude client on the whole script, any other error ends the
\* analysis
CallRaised(a, out) ==
    IF out = "moderation" /\ a.client = MoonshotClient
    THEN IF a.use_chunking THEN AnalyzeWithChunking(ClaudeClient, a)
                           ELSE [a EXCEPT !.client = ClaudeClient]
    ELSE [a EXCEPT !.pc = "raised"]

\* llm_client.py 313-320 (628-635 fallback side 617-624): one chunk call
PipelineChunkCall(out) ==
    /\ chunking.pc = "calls" /\ chunking.use_chunking
    /\ Len(chunking.chunk_results) < chunking.count
    /\ out \in ProviderOutcomes(chunking.client)
    /\ LET i == Len(chunking.chunk_results) + 1
           called == [chunking EXCEPT !.calls = Append(@,
                         [client |-> chunking.client, kind |-> "chunk",
                          chunk |-> i, partials |-> <<>>])]
       IN  chunking' =
             IF out = "ok"
             THEN [called EXCEPT !.chunk_results =
                       Append(@, [client |-> chunking.client, chunk |-> i])]
             ELSE CallRaised(called, out)
    /\ UNCHANGED <<jobVars, parseVars, request>>

\* llm_client.py 322-337 (626-641): the synthesis call, whose prompt carries
\* json.dumps(chunk_results)
PipelineSynthesisCall(out) ==
    /\ chunking.pc = "calls" /\ chunking.use_chunking
    /\ Len(chunking.chunk_results) = chunking.count
    /\ out \in ProviderOutcomes(chunking.client)
    /\ LET called == [chunking EXCEPT !.calls = Append(@,
                         [client |-> chunking.client, kind |-> "synthesis",
                          chunk |-> 0, partials |-> chunking.chunk_results])]
       IN  chunking' =
             IF out = "ok"
             THEN [called EXCEPT !.pc = "returned",
                                 !.model_used = ModelUsed(chunking.client)]
             ELSE CallRaised(called, out)
    /\ UNCHANGED <<jobVars, parseVars, request>>

\* analysis.py 149-154 and 171-176: one call on the whole script
PipelineWholeCall(out) ==
    /\ chunking.pc = "calls" /\ ~chunking.use_chunking
    /\ out \in ProviderOutcomes(chunking.client)
    /\ LET called == [chunking EXCEPT !.calls = Append(@,
                         [client |-> chunking.client, kind |-> "whole",
                          chunk |-> 0, partials |-> <<>>])]
       IN  chunking' =
             IF out = "ok"
             THEN [called EXCEPT !.pc = "returned",
                                 !.model_used = ModelUsed(chunking.client)]
             ELSE CallRaised(called, out)
    /\ UNCHANGED <<jobVars, parseVars, request>>

PipelineNext ==
    \/ \E out \in {"ok", "moderation", "rate_limit"} : PipelineChunkCall(out)
    \/ \E out \in {"ok", "moderation", "rate_limit"} : PipelineSynthesisCall(out)
    \/ \E out \in {"ok", "moderation", "rate_limit"} : PipelineWholeCall(out)

PipelineSpec == PipelineInit /\ [][PipelineNext]_vars

----------------------------------------------------------------------------
(* Properties *)

\* C1: once the job's status is Completed or Failed it never changes again,
\* whatever Job Manager operations follow (a second start_background_task
\* for the same id included).
C1_TerminalAbsorbing ==
    [][job.status \in Terminal => job'.status = job.status]_vars

\* C2: the Primary is always called first; the Fallback is called if and only
\* if the Primary raised LLMContentModerationError; any other Primary error
\* is raised as an AnalysisError without a Fallback call.
C2_FallbackOnlyOnModeration ==
    /\ hist.calls \in {<<>>, <<"primary">>, <<"primary", "fallback">>}
    /\ Contains(hist.calls, <<"fallback">>) <=> (hist.pOut = "moderation")
    /\ hist.pOut \in PrimaryErrors \ {"moderation"} =>
           /\ hist.raised = "AnalysisError"
           /\ ~Contains(hist.calls, <<"fallback">>)
           /\ hist.fOut = None

C2_Witness ==
    /\ hist.pOut = "moderation"
    /\ hist.calls = <<"primary", "fallback">>
    /\ hist.fOut = "ok"

\* C3: under fair scheduling, every job whose unit starts and finds the job
\* record eventually has a terminal status.
C3_EventuallyTerminal ==
    (hist.pickup \in {"stale", "terminal", "run"}) ~> (job.status \in Terminal)

\* C4: once the job's terminal status is written, no write of the progress
\* simulation is applied to the row any more.
C4_NoSimulationWriteAfterTerminal ==
    [][job.status \in Terminal => ~(EstAdvance \/ EstTouch)]_vars

\* C5: during one run the persisted progress never decreases, across the
\* writes of the job path (5, 10, 90, 100) and of the simulation (15 to 85),
\* in every interleaving; only the first write of a later run, which starts
\* the row over at 5, is set aside (runs do not overlap here).
C5_ProgressMonotone ==
    [][(started' = started /\ ~(started > 1 /\ unit.pc = "set_processing"))
          => job'.progress >= job.progress]_vars

C5_Witness ==
    /\ job.progress = ProgressProcessingResults
    /\ est.pc = "cancelled"
    /\ est.current > SimulationStart

\* C6 as stated: a unit that picks up a job older than 10 minutes marks it
\* Failed with the maximum-age message, calls no provider, makes no
\* transition to Processing and starts no simulation.
C6_StaleMarkedFailed ==
    (hist.aged /\ unit.pc = "finished") =>
        /\ job.status = FAILED
        /\ job.error = MsgStale
        /\ hist.calls = <<>>
        /\ est.pc = "none"

\* C6 amended: a unit that picks up a job older than 10 minutes calls no
\* provider, makes no transition to Processing and starts no simulation, and
\* unless it is cancelled meanwhile it marks the job Failed with the
\* maximum-age message.
C6_StaleNoAnalysis ==
    hist.aged =>
        /\ hist.calls = <<>>
        /\ est.pc = "none"
        /\ unit.pc \in {"mark_stale", "on_cancel", "finished"}
        /\ job.status \in {hist.startStatus, FAILED}
        /\ (unit.pc = "finished" /\ ~hist.cancelled) =>
               /\ job.status = FAILED
               /\ job.error = MsgStale
               /\ hist.mark = "stale"

C6_Witness ==
    /\ hist.aged
    /\ hist.startStatus = QUEUED
    /\ unit.pc = "finished"
    /\ job.status = FAILED
    /\ job.error = MsgStale

\* C7: a unit started for a job id with no row, or for a job that is already
\* terminal, ends leaving the row (status, progress, error message,
\* completion time) as it was and calls no provider.
C7_NoOpOnAbsentOrTerminal ==
    [][(started' = started /\ unit.pc # "finished"
          /\ (~job.exists \/ hist.startStatus \in Terminal))
          => /\ job'.status = job.status
             /\ job'.progress = job.progress
             /\ job'.error = job.error
             /\ job'.completedAt = job.completedAt
             /\ hist'.calls = <<>>]_vars

C9_BothCausesCited ==
    (hist.pOut = "moderation" /\ hist.fOut \in FallbackErrors) =>
        /\ unit.pc = "report_failed" =>
               /\ Contains(unit.exc.msg, PrimaryErrorMsg(hist.pOut))
               /\ Contains(unit.exc.msg, FallbackErrorMsg(hist.fOut))
        /\ hist.mark = "failed" /\ ~hist.timedOut =>
               /\ Contains(job.error, PrimaryErrorMsg(hist.pOut))
               /\ Contains(job.error, FallbackErrorMsg(hist.fOut))

\* C10: whenever _parse_analysis_result returns, the subscores of the result
\* have exactly the five keys concept, character, structure, dialogue and
\* market, every score is an integer from 0 to 10, and total_score is the
\* sum of the five scores (so from 0 to 50), whatever total and whatever
\* aliases the payload had.
C10_ValidatedScores ==
    parsed.t = "ok" =>
        /\ DOMAIN parsed.subscores = {"concept", "character", "structure", "dialogue", "market"}
        /\ \A c \in DOMAIN parsed.subscores : parsed.subscores[c].score \in 0..10
        /\ parsed.total_score =
               parsed.subscores["concept"].score + parsed.subscores["character"].score
               + parsed.subscores["structure"].score + parsed.subscores["dialogue"].score
               + parsed.subscores["market"].score
        /\ parsed.total_score \in 0..50

C10_Witness ==
    /\ parsed.t = "ok"
    /\ raw.subscores.t = "dict"
    /\ raw.subscores.m["premise"] = IntV(0 - 4)
    /\ raw.subscores.m["voice"] = FloatV(75)
    /\ raw.total_score = IntV(99)
    /\ parsed.total_score = 7

\* C11: the recommendation of every normalized result, and the one that
\* save_analysis_results persists, is Pass iff total_score < 25, Consider
\* iff 25 <= total_score <= 37 and Recommend iff total_score >= 38, whatever
\* label the raw payload carried (the mapping of calculate_recommendation).
\* The normalized label is read the way save_analysis_results reads it, so a
\* difference of letter case alone is not counted against the claim.
C11_RecommendationByThreshold ==
    /\ parsed.t = "ok" =>
           PersistedRecommendation(parsed.recommendation)
               = CalculateRecommendation(parsed.total_score)
    /\ stored.t = "saved" =>
           stored.recommendation = CalculateRecommendation(stored.total_score)

\* C12: for every provider payload that is a JSON object, whatever fields
\* are missing, mistyped, non-numeric or out of range, _parse_analysis_result
\* returns a complete result (every required field present, a subscore for
\* each of the five categories) and never raises.
C12_ValidationNeverFatal ==
    (raw.t = "dict" /\ parsed # NotParsed) =>
        /\ parsed.t = "ok"
        /\ DOMAIN parsed.fields = AllFields
        /\ DOMAIN parsed.subscores = CategorySet

\* C13: in every reachable state a Failed job's report is not Completed,
\* also when the failure, the deadline or a cancellation comes after the
\* provider call has returned and the result has been saved.
C13_FailedJobHasNoCompletedReport ==
    job.status = FAILED => report.status # COMPLETED

\* C14: whenever run_coverage_analysis ends without success (an error, or
\* an interruption by the deadline or by cancellation), the report is
\* marked Failed: after a deadline or an error of the analysis the report
\* is Failed, and once the unit that started the analysis has ended
\* without completing the job the report is no longer Processing.
C14_EndedAnalysisMarksReport ==
    /\ ((hist.timedOut \/ hist.raised # None) /\ unit.pc \notin InsideWaitFor) =>
           report.status = FAILED
    /\ (hist.calls # <<>> /\ unit.pc = "finished" /\ hist.mark # "completed") =>
           report.status # PROCESSING

C16_CancelledJobEventuallyTerminal ==
    (job.exists /\ hist.cancelReturned = "True") ~> (job.status \in Terminal)

\* C17: cancel_job returns True exactly when a background unit registered
\* for the job id exists and has not finished, and then a cancellation is
\* requested of that unit; otherwise it returns False and changes neither
\* the task registry nor the job record (nor the unit).
C17_CancelReturnValue ==
    [][CancelJob =>
         /\ (hist'.cancelReturned = "True") <=> (activeTask /\ unit.pc # "finished")
         /\ hist'.cancelReturned = "True" => unit'.cancel
         /\ hist'.cancelReturned = "False" /\ unit.pc \in {"idle", "finished"} =>
                ~unit'.cancel
         /\ hist'.cancelReturned = "False" =>
                UNCHANGED <<activeTask, callbacks, job, unit>>]_vars

\* cancel_job has returned False for a task that is still registered but done
C17_Witness ==
    /\ hist.cancelReturned = "False"
    /\ activeTask
    /\ callbacks > 0
    /\ unit.pc = "finished"

\* C18: when the orchestrator call has not returned 300 seconds after it
\* was started it is interrupted, the estimator is stopped, and the job is
\* marked Failed with a message saying that the analysis timed out; the job
\* is not marked Completed.  Stated of the unit once it has ended.
C18_TimeoutMarksFailed ==
    (hist.timedOut /\ unit.pc = "finished") =>
        /\ est.cancel \/ EstFinished(est)
        /\ job.status = FAILED
        /\ Contains(job.error, MsgTimedOut)

\* C19: the synthesis call is issued only for a plan of more than one
\* chunk and never over fewer than two partial results, for every input
\* text, the empty one included; a one-chunk plan makes exactly one call,
\* with the original prompt, and no synthesis call.
C19_SynthesisOnlyForSeveralChunks ==
    /\ \A k \in 1..Len(chunking.calls) :
           chunking.calls[k].kind = "synthesis" =>
               /\ Len(chunking.chunks) > 1
               /\ Len(chunking.calls[k].partials) >= 2
    /\ (chunking.pc \in {"returned", "raised"} /\ Len(chunking.chunks) = 1) =>
           /\ Len(chunking.calls) = 1
           /\ chunking.calls[1].kind = "single"

\* C20: for every text of length L, chunk size C and overlap O with
\* 0 <= O < C, the number of chunks the splitting loop produces differs from
\* ceil((L - O) / (C - O)) by at most 1, and every chunk lies within the
\* text (its end index is at most L).  Stated for L > O, where the
\* expected number is at least 1, and once the loop has ended.
C20_ChunkCount ==
    LET L == chunking.text.len
        C == chunking.chunk_size
        O == chunking.overlap
        expected == -((O - L) \div (C - O))
        count == Len(chunking.chunks)
    IN  (chunking.pc # "none" /\ O < C /\ O < L) =>
            /\ \A k \in 1..count : chunking.chunks[k][2] <= L
            /\ (chunking.pc # "split" \/ ~(chunking.start < L)) =>
                   (count - expected <= 1 /\ expected - count <= 1)

\* C21: for each canonical category the validated score is taken from the
\* first key, in alias-table order, that the raw subscores object has (score
\* and rationale of the value when it is an object), a category without any
\* alias present gets score 0 and an empty rationale, and a payload without
\* a subscores key yields the five categories at 0, total_score 0 and the
\* recommendation Pass.
C21_FirstAliasWins ==
    (raw.t = "dict" /\ raw.subscores.t \in {"dict", "missing"} /\ parsed # NotParsed) =>
        /\ parsed.t = "ok"
        /\ \A c \in CategorySet :
              LET present == IF raw.subscores.t = "missing" THEN {}
                             ELSE {i \in 1..Len(ScoreMapping[c]) :
                                      raw.subscores.m[ScoreMapping[c][i]] # Missing}
              IN  IF present = {}
                  THEN parsed.subscores[c] = [score |-> 0, rationale |-> StrV(<<>>)]
                  ELSE LET first == CHOOSE i \in present : \A j \in present : i <= j
                           value == raw.subscores.m[ScoreMapping[c][first]]
                       IN  IF value.t = "dict"
                           THEN /\ parsed.subscores[c].score =
                                       ClampScore(PyInt(Get(value.score, IntV(0))))
                                /\ value.rationale # Missing =>
                                       parsed.subscores[c].rationale = value.rationale
                           ELSE parsed.subscores[c].score = ClampScore(PyInt(value))
        /\ raw.subscores.t = "missing" =>
              /\ \A c \in CategorySet : parsed.subscores[c].score = 0
              /\ parsed.total_score = 0
              /\ parsed.recommendation = Pass

\* C22: for every evidence_quotes value of the raw payload the normalized
\* list keeps every object entry, in the original order, with quote cut to
\* 500 characters and context to 200 and with page the entry's integer page,
\* or 0 when page is missing or no valid integer; entries that are no
\* objects are dropped, and the analysis never fails because of the quotes.
\* Stated for payloads whose other fields raise nothing.
C22_QuotesNormalized ==
    (/\ raw.t = "dict"
     /\ raw.subscores.t = "missing"
     /\ raw.recommendation.t = "str"
     /\ parsed # NotParsed) =>
        /\ parsed.t = "ok"
        /\ LET dicts == SelectSeq(QuoteItems(Get(raw.evidence_quotes, ListV(<<>>))), IsDict)
           IN  /\ Len(parsed.evidence_quotes) = Len(dicts)
               /\ \A i \in 1..Len(dicts) :
                     LET page == Get(dicts[i].page, IntV(0))
                     IN  /\ parsed.evidence_quotes[i].page =
                                IF CanInt(page) THEN PyInt(page) ELSE 0
                         /\ parsed.evidence_quotes[i].quote.len <= QuoteLimit
                         /\ parsed.evidence_quotes[i].context.len <= ContextLimit

\* C23: create_job persists a record with status Queued, progress 0 and
\* script_text_hash equal to the SHA-256 of the script text, and in every
\* reachable state no field of the persisted job holds the script text
\* itself.
C23_HashNotText ==
    /\ [][\A script_text \in ScriptTexts :
            (~job.exists /\ job'.exists /\ request'.script_text = script_text) =>
                /\ job'.status = QUEUED
                /\ job'.progress = 0
                /\ job'.script_text_hash = Sha256Hex[script_text]]_vars
    /\ [](job.exists =>
            \A f \in {"status", "updatedAt", "script_text_hash", "genre", "analysis_depth"} :
                job[f] # request.script_text)
    /\ [](job.exists =>
            /\ \A i \in 1..Len(job.error) : job.error[i] # request.script_text
            /\ \A i \in 1..Len(job.comps) : job.comps[i] # request.script_text)

C23_Witness ==
    /\ job.exists
    /\ job.status = FAILED
    /\ request.script_text = "FADE IN:"
    /\ job.script_text_hash = "c2c755cfaec9f9dde5e18f2d3787af0d56962e953225be55c8900997567a6a24"

\* percentages in and out of range
PctSamples == {0 - 250, 0 - 1, 0, 37, 100, 101, 4000}

C25_CallsInOrder ==
    LET N == Len(chunking.chunks)
        calls == chunking.calls
    IN  (chunking.pc \in {"chunks", "returned", "raised"} /\ N > 1) =>
            /\ Len(calls) <= N + 1
            /\ \A k \in 1..Len(calls) :
                  IF k <= N
                  THEN /\ calls[k].kind = "chunk"
                       /\ calls[k].chunk = k
                       /\ calls[k].of = N
                  ELSE /\ calls[k].kind = "synthesis"
                       /\ calls[k].partials = [i \in 1..N |-> i]
            /\ \A k \in 1..(Len(calls) - 1) : calls[k].out = "ok"
            /\ chunking.pc = "returned" => Len(calls) = N + 1

C25_Witness ==
    /\ chunking.pc = "returned"
    /\ Len(chunking.chunks) = 3
    /\ Len(chunking.calls) = 4
    /\ chunking.calls[4].partials = <<1, 2, 3>>

\* C26: if the provider call for chunk i fails, analyze_with_chunking raises
\* that error: no call for a later chunk and no synthesis call is made, and
\* nothing is returned from the partial results collected so far.
C26_ChunkFailureAborts ==
    \A k \in 1..Len(chunking.calls) :
        (chunking.calls[k].kind = "chunk" /\ chunking.calls[k].out # "ok") =>
            /\ k = Len(chunking.calls)
            /\ chunking.pc = "raised"
            /\ chunking.exc = chunking.calls[k].out

C26_Witness ==
    /\ chunking.pc = "raised"
    /\ Len(chunking.chunks) = 3
    /\ Len(chunking.calls) = 2
    /\ chunking.calls[2].out = "rate_limit"
    /\ chunking.chunk_results = <<1>>

\* C27: the progress simulation never changes the outcome of the job. In a
\* run that was neither cancelled nor timed out, once the unit has ended:
\* if the analysis returned a result the job is Completed, and if it raised
\* the job is Failed with the error of the analysis, whatever became of the
\* simulation task (cancelled by the parent, ended by itself, or ended with
\* the exception of a write that failed).
C27_EstimatorNeverChangesOutcome ==
    (/\ unit.pc = "finished"
     /\ hist.pickup = "run"
     /\ ~hist.cancelled /\ ~hist.timedOut
     /\ hist.marking \in {None, "ok"}) =>
        /\ hist.returned # None =>
               /\ hist.mark = "completed"
               /\ job.status = COMPLETED
        /\ hist.raised # None =>
               /\ hist.mark = "failed"
               /\ job.status = FAILED
               /\ job.error = JobErrorMsg(CoverageFailed(hist.failure))

\* C30: if the call that marks the report Failed fails itself,
\* run_coverage_analysis still raises an AnalysisError carrying the message
\* of the original failure, and the job is marked Failed with that message,
\* not with the error of the marking call (runs without cancellation,
\* timeout or a failed simulation write).
C30_MarkingFailureNotPropagated ==
    (/\ hist.marking \in {"rolled_back", "rollback_failed"}
     /\ ~hist.cancelled /\ ~hist.timedOut
     /\ est.pc # "failed") =>
        /\ unit.pc = "await_est_error" => unit.exc = CoverageFailed(hist.failure)
        /\ unit.pc = "finished" =>
               /\ job.status = FAILED
               /\ job.error = JobErrorMsg(CoverageFailed(hist.failure))

\* ceil(a / b) for b > 0
CeilDiv(a, b) == (a + b - 1) \div b

\* C28: never cancelled, _simulate_progress_updates(start, end) ends by
\* itself. For start <= end it makes at most
\* ceil((end - start) / max(1, (end - start) div 30)) advancing writes, then
\* at most 30 writes of the end value (UpdateSteps and MaxEndUpdates stand
\* for the two 30s), and once a loop test has seen elapsed > max_duration it
\* makes no further write.
C28_SimulationTerminates ==
    /\ [](est.start <= est.end =>
            /\ est.advances <=
                   CeilDiv(est.end - est.start,
                           Max(1, (est.end - est.start) \div UpdateSteps))
            /\ est.end_update_count <= MaxEndUpdates
            /\ est.end_update_count > 0 => ~(est.current < est.end))
    /\ [](est.expired =>
            /\ est.advances + est.end_update_count = est.writesAtExpiry
            /\ est.pc \in {"second_loop", "done"})
    /\ <>(est.pc = "done")

C28_Witness ==
    /\ est.pc = "done"
    /\ est.start < est.end
    /\ est.advances >= 3
    /\ est.advances = CeilDiv(est.end - est.start,
                              Max(1, (est.end - est.start) \div UpdateSteps))
    /\ est.end_update_count = MaxEndUpdates
    /\ ~est.expired

\* C29: the simulation and the job path never use the same database
\* session. Every write of the simulation runs on a session of its own,
\* opened for that write and closed before the next one, and the session of
\* the job path never has two units of concurrency with an operation in
\* flight, in any interleaving.
C29_SessionsIsolated ==
    /\ Cardinality(UsersOf(JobSession)) <= 1
    /\ est.pc \in {"writing", "end_writing"} =>
           /\ est.session # JobSession
           /\ est.session = SimulationSession(est.advances + est.end_update_count + 1)
           /\ UsersOf(est.session) = {"simulation"}
    /\ est.pc \notin {"writing", "end_writing"} => est.session = NoSession

\* both have an operation in flight at once: the analysis on db, the
\* simulation on its third session
C29_Witness ==
    /\ unit.pc = "path_save"
    /\ est.pc = "writing"
    /\ est.session = SimulationSession(3)
    /\ UsersOf(JobSession) = {"analysis"}

\* C31: the Primary client reports a moderation rejection exactly for an
\* HTTP 400 whose message is a content refusal. A 429 gives the rate-limit
\* error; a 401, a 400 for a malformed request, another status, a timeout
\* or a connection failure gives a non-moderation error whatever the error
\* text says, so none of them calls the Fallback.
C31_ModerationOnlyForRefusal ==
    (request.t = "exchange" /\ request.outcome # None) =>
        LET t == request.transport
            refused == /\ t.kind = "response"
                       /\ t.status = 400
                       /\ t.body.kind = "message"
                       /\ ProviderMessages[t.body.n].refusal
        IN  /\ TriggersFallback(request.outcome) <=> refused
            /\ (t.kind = "response" /\ t.status = 429) =>
                   request.outcome = "LLMRateLimitError"

\* C32: for both clients, analyze_script with JSON expected returns the
\* payload of the completion if it parses directly, else of a fenced code
\* block in it, else of its brace-delimited span; it raises only when all
\* three fail, and the error is the "likely truncated" one exactly when the
\* completion tokens used are at least 95% of max_tokens.
C32_JsonRecovery ==
    (raw.t = "completion" /\ parsed # NotParsed /\ raw.has_usage) =>
        LET content == raw.content
            fenced == FencedBlock(content)
            braces == BraceSpan(content)
        IN  IF JsonLoads(content) THEN parsed = Returned(content)
            ELSE IF fenced.found /\ JsonLoads(fenced.group) THEN parsed = Returned(fenced.group)
            ELSE IF braces.found /\ JsonLoads(braces.group) THEN parsed = Returned(braces.group)
            ELSE /\ parsed.t = "raised"
                 /\ parsed.error = "truncated" <=> raw.tokens * 100 >= TokenLimit * 95

\* the splitting loop has ended
LoopEnded(c) == c.pc # "none" /\ (c.pc # "split" \/ ~(c.start < c.text.len))

\* C33: for 0 <= O < C the chunks, taken in order, cover the text without
\* gaps: the first chunk starts at index 0, each next chunk starts exactly O
\* characters before the end of the previous one, the last chunk ends at L,
\* and so every character of the text is in at least one chunk.
C33_ChunksCoverText ==
    LET L == chunking.text.len
        chunks == chunking.chunks
        count == Len(chunks)
    IN  (LoopEnded(chunking) /\ chunking.overlap < chunking.chunk_size /\ L > 0) =>
            /\ count >= 1
            /\ chunks[1][1] = 0
            /\ \A k \in 1..(count - 1) : chunks[k + 1][1] = chunks[k][2] - chunking.overlap
            /\ chunks[count][2] = L
            /\ \A p \in 0..(L - 1) : \E k \in 1..count : chunks[k][1] <= p /\ p < chunks[k][2]

\* C34: for 0 <= O < C the splitting loop terminates: the start index
\* strictly increases on every turn of the loop, also when the cut point is
\* moved to a newline found in the window around the chunk boundary.
C34_StartIncreases ==
    [][(chunking.pc = "split" /\ chunking.overlap < chunking.chunk_size
        /\ Len(chunking'.chunks) > Len(chunking.chunks))
           => chunking'.start > chunking.start]_vars

\* C35: a text not longer than the chunk size yields a plan of exactly one
\* chunk, the whole text, and so exactly one provider call; and the last
\* chunk of a plan is never wholly contained in the chunk before it.
C35_ShortTextOneChunk ==
    LET L == chunking.text.len
        chunks == chunking.chunks
        count == Len(chunks)
    IN  (LoopEnded(chunking) /\ chunking.overlap < chunking.chunk_size) =>
            /\ L <= chunking.chunk_size =>
                   /\ chunks = <<(<<0, L>>)>>
                   /\ chunking.pc \in {"returned", "raised"} => Len(chunking.calls) = 1
            /\ count >= 2 =>
                   ~(/\ chunks[count - 1][1] <= chunks[count][1]
                     /\ chunks[count][2] <= chunks[count - 1][2])

\* the chunk calls the Claude client has made, in order
ClaudeChunkCalls ==
    SelectSeq(chunking.calls,
              LAMBDA c : c.client = ClaudeClient /\ c.kind = "chunk")

\* C36: every partial result in a synthesis prompt comes from the provider
\* that makes the synthesis call, one per chunk in order; and after a
\* moderation rejection of the Primary Provider the Fallback Provider analyses
\* every chunk again from the first, so an analysis it returns has called it
\* on all the chunks.
C36_OneProviderPerAnalysis ==
    /\ \A i \in 1..Len(chunking.calls) :
          chunking.calls[i].kind = "synthesis" =>
             /\ Len(chunking.calls[i].partials) = chunking.count
             /\ \A k \in 1..Len(chunking.calls[i].partials) :
                   /\ chunking.calls[i].partials[k].client = chunking.calls[i].client
                   /\ chunking.calls[i].partials[k].chunk = k
    /\ \A k \in 1..Len(ClaudeChunkCalls) : ClaudeChunkCalls[k].chunk = k
    /\ (chunking.pc = "returned" /\ chunking.use_chunking
        /\ chunking.model_used = MODEL_CLAUDE_SONNET)
           => Len(ClaudeChunkCalls) = chunking.count

\* the Primary Provider was rejected after it had returned partial results, and
\* the Fallback Provider's synthesis has returned
C36_Witness ==
    /\ chunking.pc = "returned" /\ chunking.use_chunking
    /\ chunking.model_used = MODEL_CLAUDE_SONNET
    /\ \E i \in 1..Len(chunking.calls) :
          /\ chunking.calls[i].client = MoonshotClient
          /\ chunking.calls[i].kind = "chunk" /\ chunking.calls[i].chunk >= 2

\* C37: while a background unit of the job is still running, the registry maps
\* the job id to a running unit, so a cancel_job call would return True and
\* reach it; this includes a unit started after an earlier unit for the same
\* id has finished.
C37_RunningUnitRegistered ==
    unit.pc \notin {"idle", "finished"} =>
        /\ activeTask
        /\ CancelReturns(activeTask, unit)

C39_EstimatorWritesOnlyProgress ==
    [][(est.pc \in {"writing", "end_writing"}
        /\ est'.pc \in {"first_loop", "second_loop"}) =>
          /\ job'.status = job.status
          /\ job'.error = job.error
          /\ job'.completedAt = job.completedAt
          /\ job'.updatedAt = "simulation"
          /\ est.start <= est.end =>
                (est.start <= job'.progress /\ job'.progress <= est.end)
          /\ est.advances + est.end_update_count > 0 =>
                job'.progress >= job.progress]_vars

\* the estimator has advanced to the end value in several writes and has
\* written the end value again
C39_Witness ==
    /\ est.start < est.end
    /\ est.advances >= 2
    /\ est.end_update_count >= 1
    /\ job.progress = est.end
    /\ job.updatedAt = "simulation"
    /\ job.status = PROCESSING

\* C40: _parse_analysis_result applied to a result it has returned returns the
\* same subscores, total_score, recommendation and evidence_quotes.
C40_ParseIdempotent ==
    parsed.t = "ok" =>
        LET again == ParseAnalysisResult(AsRawResult(parsed))
        IN  /\ again.t = "ok"
            /\ again.subscores = parsed.subscores
            /\ again.total_score = parsed.total_score
            /\ again.recommendation = parsed.recommendation
            /\ again.evidence_quotes = parsed.evidence_quotes

\* a result whose concept entry came from an alias with a note and no score,
\* whose character score was cut down to 10 and whose total was recomputed
C40_Witness ==
    /\ parsed.t = "ok"
    /\ raw.subscores.m["concept"] = Missing
    /\ parsed.subscores["concept"].rationale = TextV(12)
    /\ parsed.subscores["character"].score = 10
    /\ raw.total_score = IntV(99)
    /\ parsed.total_score = 10
    /\ parsed.recommendation = Pass
====
